---- MODULE Spec2Model ----
(***************************************************************************)
(* A model of the WAIMAKERS news pipeline (news_fetcher.py): the HTML text *)
(* extractor, the date normalizer, the feed parser, the summarizer and the *)
(* aggregator.                                                             *)
(*                                                                         *)
(* Python strings are sequences of one-character strings, so that len,     *)
(* slicing, strip, lower and the `in` substring test are computed as the   *)
(* code computes them.  A Python call that may raise is an operator whose  *)
(* value is a record [exc, val]: exc = "none" when the call returns val.   *)
(***************************************************************************)
EXTENDS Integers, Sequences, FiniteSets, TLC

VARIABLES
    \* parse_rss_feed called on its own: arguments, position, value returned
    content, source_name, keywords, parse_pc, parsed,
    \* fetch_all_news: the argument, the locals, the position, and the log of
    \* the fetches made so far (source name, what its URL answered)
    max_articles, pc, src_idx, all_articles, successful_sources,
    clock, fetch_log, result,
    \* generate_daily_summary called on its own: the argument, the locals
    \* themes and summary_parts, the position, the string returned
    sum_articles, sum_pc, themes, summary_parts, summary,
    \* parse_rss_date called on its own: the argument, the position, the
    \* value returned
    raw_date, date_pc, date_out,
    \* strip_html called on its own: the text as the events HTMLParser makes
    \* of it, how many were handled, the extractor, the position, the result
    html_events, html_pos, parser, html_pc, html_out,
    \* the dashboard agent (agent.py): the module globals dashboard_state and
    \* NEWS_FETCHER_AVAILABLE, the fetch_and_update threads started so far
    \* (position and local `articles` of each), what the last POST was
    \* answered, how many POSTs were handled, and the last POST issued among
    \* those that write the article list
    dashboard_state, NEWS_FETCHER_AVAILABLE, threads, http_response, handled,
    last_mutation

vars == <<content, source_name, keywords, parse_pc, parsed,
          max_articles, pc, src_idx, all_articles, successful_sources,
          clock, fetch_log, result,
          sum_articles, sum_pc, themes, summary_parts, summary,
          raw_date, date_pc, date_out,
          html_events, html_pos, parser, html_pc, html_out,
          dashboard_state, NEWS_FETCHER_AVAILABLE, threads, http_response, handled,
          last_mutation>>

parse_vars == <<content, source_name, keywords, parse_pc, parsed>>
agg_vars == <<max_articles, pc, src_idx, all_articles,
              successful_sources, clock, fetch_log, result>>
sum_vars == <<sum_articles, sum_pc, themes, summary_parts, summary>>
date_vars == <<raw_date, date_pc, date_out>>
html_vars == <<html_events, html_pos, parser, html_pc, html_out>>
dash_vars == <<dashboard_state, NEWS_FETCHER_AVAILABLE, threads,
               http_response, handled, last_mutation>>

----------------------------------------------------------------------------
(* Bounds of the model *)

\* longest item list of a feed handed to parse_rss_feed on its own
MaxItems == 6
\* how many entries of NEWS_SOURCES (in registry order) the aggregator run uses
MaxPrimary == 2
\* fetch_all_news is called with max_articles in 1..MaxMaxArticles
MaxMaxArticles == 3

----------------------------------------------------------------------------
(* Python values *)

Ok(v) == [exc |-> "none", val |-> v]
Raise(e, v) == [exc |-> e, val |-> v]

Min2(a, b) == IF a <= b THEN a ELSE b

\* s[:n]
Prefix(s, n) == SubSeq(s, 1, Min2(n, Len(s)))

\* a string of n copies of the character c
Repeat(c, n) == [i \in 1..n |-> c]

Whitespace == {" ", "\t", "\n", "\r"}

\* str.strip()
strip(s) ==
    LET keep == {i \in 1..Len(s) : s[i] \notin Whitespace}
    IN  IF keep = {} THEN <<>>
        ELSE SubSeq(s, CHOOSE i \in keep : \A j \in keep : i <= j,
                       CHOOSE i \in keep : \A j \in keep : j <= i)

UpperLetters == <<"A","B","C","D","E","F","G","H","I","J","K","L","M",
                  "N","O","P","Q","R","S","T","U","V","W","X","Y","Z">>
LowerLetters == <<"a","b","c","d","e","f","g","h","i","j","k","l","m",
                  "n","o","p","q","r","s","t","u","v","w","x","y","z">>

LowerMap ==
    [c \in {UpperLetters[i] : i \in 1..26} |->
        LowerLetters[CHOOSE i \in 1..26 : UpperLetters[i] = c]]

LowerChar(c) == IF c \in DOMAIN LowerMap THEN LowerMap[c] ELSE c

\* str.lower()
lower(s) == [i \in 1..Len(s) |-> LowerChar(s[i])]

\* needle in haystack
Contains(haystack, needle) ==
    LET h == haystack
        n == needle
    IN  \E i \in 1..(Len(h) - Len(n) + 1) : SubSeq(h, i, i + Len(n) - 1) = n

RECURSIVE Concat(_)
\* ''.join(parts)
Concat(parts) ==
    IF parts = <<>> THEN <<>> ELSE Head(parts) \o Concat(Tail(parts))

RECURSIVE JoinSpace(_)
\* ' '.join(parts)
JoinSpace(parts) ==
    IF parts = <<>> THEN <<>>
    ELSE IF Len(parts) = 1 THEN Head(parts)
    ELSE Head(parts) \o <<" ">> \o JoinSpace(Tail(parts))

----------------------------------------------------------------------------
(* HTMLTextExtractor and strip_html.  An HTML text is the sequence of      *)
(* events HTMLParser.feed delivers for it (start tag, end tag, data), and  *)
(* a flag telling whether feed raises on it.  The empty text has no event. *)

StartTag(t) == [kind |-> "start", tag |-> t, data |-> <<>>]
EndTag(t)   == [kind |-> "end",   tag |-> t, data |-> <<>>]
Data(d)     == [kind |-> "data",  tag |-> "",  data |-> d]

Html(evs)        == [events |-> evs, raises |-> FALSE]
BrokenHtml(evs)  == [events |-> evs, raises |-> TRUE]

SkipTags == {"script", "style", "head"}

HTMLTextExtractor == [text_parts |-> <<>>, skip_data |-> FALSE]

handle_starttag(self, tag) ==
    IF tag \in SkipTags THEN [self EXCEPT !.skip_data = TRUE] ELSE self

handle_endtag(self, tag) ==
    IF tag \in SkipTags THEN [self EXCEPT !.skip_data = FALSE] ELSE self

handle_data(self, data) ==
    IF ~self.skip_data
    THEN [self EXCEPT !.text_parts = Append(@, strip(data))]
    ELSE self

RECURSIVE feed(_, _)
feed(self, events) ==
    IF events = <<>> THEN self
    ELSE LET e == Head(events)
             next == CASE e.kind = "start" -> handle_starttag(self, e.tag)
                       [] e.kind = "end"   -> handle_endtag(self, e.tag)
                       [] OTHER            -> handle_data(self, e.data)
         IN  feed(next, Tail(events))

get_text(self) ==
    JoinSpace(SelectSeq(self.text_parts, LAMBDA p : p # <<>>))

\* re.sub(r'<[^>]+>', '', html_text): the tags go, every text between stays
RegexStripTags(html_text) ==
    Concat([i \in 1..Len(SelectSeq(html_text.events, LAMBDA e : e.kind = "data"))
              |-> SelectSeq(html_text.events, LAMBDA e : e.kind = "data")[i].data])

strip_html(html_text) ==
    IF html_text.events = <<>> THEN <<>>
    ELSE IF html_text.raises THEN RegexStripTags(html_text)
    ELSE get_text(feed(HTMLTextExtractor, html_text.events))

----------------------------------------------------------------------------
(* parse_rss_date.  A raw date string is its shape (which strptime format  *)
(* it is written in), the wall-clock date-time it spells and the UTC       *)
(* offset it names; a datetime is a wall-clock value and a tzinfo; an ISO  *)
(* string is the wall-clock text and the offset suffix ("" when naive).    *)

RawDate(shape, wall, off) == [shape |-> shape, wall |-> wall, off |-> off]
EmptyDateStr == RawDate("empty", 0, 0)

Naive(wall)      == [wall |-> wall, aware |-> FALSE, off |-> 0]
Aware(wall, off) == [wall |-> wall, aware |-> TRUE,  off |-> off]

formats == << "%a, %d %b %Y %H:%M:%S %z",
              "%a, %d %b %Y %H:%M:%S %Z",
              "%Y-%m-%dT%H:%M:%S%z",
              "%Y-%m-%dT%H:%M:%SZ",
              "%Y-%m-%d %H:%M:%S",
              "%Y-%m-%d" >>

\* datetime.strptime(date_str, fmt): %z reads a numeric offset (or Z) into an
\* aware datetime, %Z reads a zone name and gives a naive one
strptime(date_str, fmt) ==
    CASE fmt = "%a, %d %b %Y %H:%M:%S %z" /\ date_str.shape = "rfc822 offset"
            -> Ok(Aware(date_str.wall, date_str.off))
      [] fmt = "%a, %d %b %Y %H:%M:%S %z" /\ date_str.shape = "rfc822 Z"
            -> Ok(Aware(date_str.wall, 0))
      [] fmt = "%a, %d %b %Y %H:%M:%S %Z" /\ date_str.shape = "rfc822 name"
            -> Ok(Naive(date_str.wall))
      [] fmt = "%Y-%m-%dT%H:%M:%S%z" /\ date_str.shape = "iso offset"
            -> Ok(Aware(date_str.wall, date_str.off))
      [] fmt = "%Y-%m-%dT%H:%M:%S%z" /\ date_str.shape = "iso Z"
            -> Ok(Aware(date_str.wall, 0))
      [] fmt = "%Y-%m-%dT%H:%M:%SZ" /\ date_str.shape = "iso Z"
            -> Ok(Naive(date_str.wall))
      [] fmt = "%Y-%m-%d %H:%M:%S" /\ date_str.shape = "datetime"
            -> Ok(Naive(date_str.wall))
      [] fmt = "%Y-%m-%d" /\ date_str.shape = "date"
            -> Ok(Naive(date_str.wall))
      [] OTHER -> Raise("ValueError", Naive(0))

\* datetime.isoformat()
isoformat(dt) ==
    [text |-> dt.wall, suffix |-> IF dt.aware THEN <<"+", dt.off>> ELSE <<>>]

\* datetime.fromisoformat(s)
fromisoformat(s) ==
    IF s.suffix = <<>> THEN Naive(s.text) ELSE Aware(s.text, s.suffix[2])

\* the mutant of datetime_now: a fixed date long past
datetime_now_Epoch(now) == Naive(0)

\* datetime.now() when the clock reads `now`
datetime_now(now) == Naive(now)

\* the mutant of parse_rss_date: the last format that matches decides
parse_rss_date_LastMatch(date_str, now) ==
    IF date_str.shape = "empty" THEN isoformat(datetime_now(now))
    ELSE LET hits == {i \in 1..Len(formats) :
                          strptime(date_str, formats[i]).exc = "none"}
         IN  IF hits = {} THEN isoformat(datetime_now(now))
             ELSE LET last == CHOOSE i \in hits : \A j \in hits : j <= i
                  IN  isoformat(strptime(date_str, formats[last]).val)

\* lines 156-182
parse_rss_date(date_str, now) ==
    IF date_str.shape = "empty" THEN isoformat(datetime_now(now))
    ELSE LET hits == {i \in 1..Len(formats) :
                          strptime(date_str, formats[i]).exc = "none"}
         IN  IF hits = {} THEN isoformat(datetime_now(now))
             ELSE LET first == CHOOSE i \in hits : \A j \in hits : i <= j
                  IN  isoformat(strptime(date_str, formats[first]).val)

----------------------------------------------------------------------------
(* parse_rss_feed.  The content handed to ET.fromstring is None, the empty *)
(* string, a text that is not well-formed XML, or a document; a document   *)
(* is the list of its RSS `item` nodes and the list of its Atom `entry`    *)
(* nodes, each in document order.  A node is the record of the children    *)
(* the parser looks up; a child is absent, or present with its text (the   *)
(* empty string for ElementTree's None) and its href attribute.            *)

NoElem == [present |-> FALSE, text |-> <<>>, href |-> <<>>,
           html |-> Html(<<>>), date |-> EmptyDateStr]
TextElem(t)    == [NoElem EXCEPT !.present = TRUE, !.text = t]
LinkElem(t, h) == [NoElem EXCEPT !.present = TRUE, !.text = t, !.href = h]
HtmlElem(h)    == [NoElem EXCEPT !.present = TRUE, !.html = h]
DateElem(d)    == [NoElem EXCEPT !.present = TRUE, !.date = d]

\* a node none of whose looked-up children is present
EmptyItem ==
    [title |-> NoElem, atom_title |-> NoElem,
     link |-> NoElem, atom_link |-> NoElem,
     description |-> NoElem, atom_summary |-> NoElem, atom_content |-> NoElem,
     pubDate |-> NoElem, atom_published |-> NoElem, atom_updated |-> NoElem]

PyNone        == [kind |-> "None",      items |-> <<>>, entries |-> <<>>]
EmptyBody     == [kind |-> "empty",     items |-> <<>>, entries |-> <<>>]
MalformedXml  == [kind |-> "malformed", items |-> <<>>, entries |-> <<>>]
Document(items, entries) ==
    [kind |-> "xml", items |-> items, entries |-> entries]

\* ET.fromstring(content)
ET_fromstring(c) ==
    CASE c.kind = "None" -> Raise("TypeError", c)
      [] c.kind = "xml"  -> Ok(c)
      [] OTHER           -> Raise("ParseError", c)

S_Untitled == <<"U","n","t","i","t","l","e","d">>
S_LatestNewsFrom ==
    <<"L","a","t","e","s","t"," ","n","e","w","s"," ","f","r","o","m"," ">>
S_Ellipsis == <<".",".",".">>

MaxItemsPerSource == 5
MaxSummaryLen == 300
TruncatedLen == 297

\* lines 193-195: the RSS items, or the Atom entries when there is no item
FindItems(root) ==
    IF Len(root.items) = 0 THEN root.entries ELSE root.items

\* the mutant of ItemTitle: the title text is not stripped
ItemTitle_NoStrip(item) ==
    LET title_elem == IF ~item.title.present THEN item.atom_title
                      ELSE item.title
    IN  IF title_elem.present /\ title_elem.text # <<>>
        THEN title_elem.text ELSE <<>>

\* lines 199-205
ItemTitle(item) ==
    LET title_elem == IF ~item.title.present THEN item.atom_title
                      ELSE item.title
    IN  IF title_elem.present /\ title_elem.text # <<>>
        THEN strip(title_elem.text) ELSE <<>>

\* line 208
SkipItem(title) == title = <<>> \/ title = S_Untitled

\* x or y, on strings
OrStr(x, y) == IF x # <<>> THEN x ELSE y

\* the mutant of ItemLink: the text of the plain element before its href
ItemLink_TextFirst(item) ==
    LET link == IF item.link.present
                THEN OrStr(item.link.text, OrStr(item.link.href, <<>>))
                ELSE <<>>
    IN  IF link = <<>>
        THEN IF item.atom_link.present
             THEN OrStr(item.atom_link.href, <<>>) ELSE link
        ELSE link

\* lines 212-219
ItemLink(item) ==
    LET link == IF item.link.present
                THEN OrStr(item.link.href, OrStr(item.link.text, <<>>))
                ELSE <<>>
    IN  IF link = <<>>
        THEN IF item.atom_link.present
             THEN OrStr(item.atom_link.href, <<>>) ELSE link
        ELSE link

\* the mutant of ItemDescription: the cut keeps 300 characters, not 297
ItemDescription_CutAt300(item) ==
    LET desc_elem ==
            IF item.description.present THEN item.description
            ELSE IF item.atom_summary.present THEN item.atom_summary
            ELSE item.atom_content
        description ==
            IF desc_elem.present /\ desc_elem.html.events # <<>>
            THEN strip_html(desc_elem.html) ELSE <<>>
    IN  IF Len(description) > MaxSummaryLen
        THEN SubSeq(description, 1, MaxSummaryLen) \o S_Ellipsis
        ELSE description

\* lines 222-234
ItemDescription(item) ==
    LET desc_elem ==
            IF item.description.present THEN item.description
            ELSE IF item.atom_summary.present THEN item.atom_summary
            ELSE item.atom_content
        description ==
            IF desc_elem.present /\ desc_elem.html.events # <<>>
            THEN strip_html(desc_elem.html) ELSE <<>>
    IN  IF Len(description) > MaxSummaryLen
        THEN SubSeq(description, 1, TruncatedLen) \o S_Ellipsis
        ELSE description

\* lines 237-243
ItemDateStr(item) ==
    LET date_elem ==
            IF item.pubDate.present THEN item.pubDate
            ELSE IF item.atom_published.present THEN item.atom_published
            ELSE item.atom_updated
    IN  IF date_elem.present THEN date_elem.date ELSE EmptyDateStr

\* lines 246-250
Highlights(title, kws) ==
    SelectSeq(kws, LAMBDA kw : Contains(lower(title), lower(kw)))

\* lines 252-260
MakeArticle(item, name, kws, now) ==
    [source     |-> name,
     title      |-> ItemTitle(item),
     summary    |-> OrStr(strip(ItemDescription(item)), S_LatestNewsFrom \o name),
     date       |-> parse_rss_date(ItemDateStr(item), now),
     link       |-> strip(ItemLink(item)),
     highlights |-> Highlights(ItemTitle(item), kws),
     overview   |-> <<>>]

\* the mutant of ParseItems: untitled items are dropped before the cap
ParseItems_CapAfterSkip(items, name, kws, now) ==
    LET kept == Prefix(SelectSeq(items, LAMBDA it : ~SkipItem(ItemTitle(it))),
                       MaxItemsPerSource)
    IN  [i \in 1..Len(kept) |-> MakeArticle(kept[i], name, kws, now)]

\* lines 197-260: the loop over items[:5]
ParseItems(items, name, kws, now) ==
    LET kept == SelectSeq(Prefix(items, MaxItemsPerSource),
                          LAMBDA it : ~SkipItem(ItemTitle(it)))
    IN  [i \in 1..Len(kept) |-> MakeArticle(kept[i], name, kws, now)]

\* lines 190-260: the body of the try statement
ParseBody(c, name, kws, now) ==
    LET root == ET_fromstring(c)
    IN  IF root.exc # "none" THEN Raise(root.exc, <<>>)
        ELSE Ok(ParseItems(FindItems(root.val), name, kws, now))

\* the mutant of parse_rss_feed: no except clause
parse_rss_feed_NoExcept(c, name, kws, now) == ParseBody(c, name, kws, now)

\* lines 185-267: both except clauses return the articles built so far
parse_rss_feed(c, name, kws, now) ==
    LET r == ParseBody(c, name, kws, now)
    IN  IF r.exc = "none" THEN r ELSE Ok(r.val)

----------------------------------------------------------------------------
(* The feed registry, lines 23-100 *)

NEWS_SOURCES == <<
    [name |-> <<"T","e","c","h","C","r","u","n","c","h"," ","A","I">>,
     url |-> "https://techcrunch.com/category/artificial-intelligence/feed/",
     type |-> "rss",
     keywords |-> << <<"A","I">>,
                   <<"a","r","t","i","f","i","c","i","a","l"," ","i","n","t","e","l","l","i","g","e","n","c","e">>,
                   <<"m","a","c","h","i","n","e"," ","l","e","a","r","n","i","n","g">>,
                   <<"G","P","T">>,
                   <<"L","L","M">>,
                   <<"s","t","a","r","t","u","p">> >>],
    [name |-> <<"O","p","e","n","A","I">>,
     url |-> "https://openai.com/blog/rss/",
     type |-> "rss",
     keywords |-> << <<"O","p","e","n","A","I">>,
                   <<"G","P","T">>,
                   <<"C","h","a","t","G","P","T">>,
                   <<"D","A","L","L","-","E">>,
                   <<"S","o","r","a">>,
                   <<"o","1">> >>],
    [name |-> <<"G","o","o","g","l","e"," ","A","I">>,
     url |-> "https://blog.google/technology/ai/rss/",
     type |-> "rss",
     keywords |-> << <<"G","o","o","g","l","e">>,
                   <<"G","e","m","i","n","i">>,
                   <<"D","e","e","p","M","i","n","d">>,
                   <<"B","a","r","d">> >>],
    [name |-> <<"N","V","I","D","I","A"," ","A","I">>,
     url |-> "https://blogs.nvidia.com/feed/",
     type |-> "rss",
     keywords |-> << <<"N","V","I","D","I","A">>,
                   <<"G","P","U">>,
                   <<"C","U","D","A">>,
                   <<"A","I"," ","h","a","r","d","w","a","r","e">>,
                   <<"i","n","f","e","r","e","n","c","e">> >>],
    [name |-> <<"O","n","e"," ","U","s","e","f","u","l"," ","T","h","i","n","g">>,
     url |-> "https://www.oneusefulthing.org/feed",
     type |-> "rss",
     keywords |-> << <<"A","I">>,
                   <<"e","d","u","c","a","t","i","o","n">>,
                   <<"E","t","h","a","n"," ","M","o","l","l","i","c","k">>,
                   <<"p","r","o","d","u","c","t","i","v","i","t","y">> >>],
    [name |-> <<"T","h","e"," ","V","e","r","g","e"," ","A","I">>,
     url |-> "https://www.theverge.com/rss/ai-artificial-intelligence/index.xml",
     type |-> "rss",
     keywords |-> << <<"A","I">>,
                   <<"t","e","c","h">>,
                   <<"G","o","o","g","l","e">>,
                   <<"M","i","c","r","o","s","o","f","t">>,
                   <<"O","p","e","n","A","I">> >>],
    [name |-> <<"A","r","s"," ","T","e","c","h","n","i","c","a"," ","A","I">>,
     url |-> "https://feeds.arstechnica.com/arstechnica/technology-lab",
     type |-> "rss",
     keywords |-> << <<"A","I">>,
                   <<"t","e","c","h">>,
                   <<"s","c","i","e","n","c","e">>,
                   <<"r","e","s","e","a","r","c","h">> >>],
    [name |-> <<"M","I","T"," ","T","e","c","h"," ","R","e","v","i","e","w"," ","A","I">>,
     url |-> "https://www.technologyreview.com/topic/artificial-intelligence/feed",
     type |-> "rss",
     keywords |-> << <<"A","I">>,
                   <<"r","e","s","e","a","r","c","h">>,
                   <<"M","I","T">>,
                   <<"i","n","n","o","v","a","t","i","o","n">> >>],
    [name |-> <<"V","e","n","t","u","r","e","B","e","a","t"," ","A","I">>,
     url |-> "https://venturebeat.com/category/ai/feed/",
     type |-> "rss",
     keywords |-> << <<"A","I">>,
                   <<"e","n","t","e","r","p","r","i","s","e">>,
                   <<"s","t","a","r","t","u","p">>,
                   <<"f","u","n","d","i","n","g">> >>],
    [name |-> <<"W","i","r","e","d"," ","A","I">>,
     url |-> "https://www.wired.com/feed/tag/ai/latest/rss",
     type |-> "rss",
     keywords |-> << <<"A","I">>,
                   <<"t","e","c","h">>,
                   <<"f","u","t","u","r","e">>,
                   <<"e","t","h","i","c","s">> >>]
>>

BACKUP_FEEDS == <<
    [name |-> <<"H","a","c","k","e","r"," ","N","e","w","s"," ","A","I">>,
     url |-> "https://hnrss.org/newest?q=AI+OR+LLM+OR+GPT&count=10",
     type |-> "rss",
     keywords |-> << <<"A","I">>,
                   <<"L","L","M">>,
                   <<"G","P","T">>,
                   <<"s","t","a","r","t","u","p">> >>],
    [name |-> <<"A","I"," ","N","e","w","s">>,
     url |-> "https://www.artificialintelligence-news.com/feed/",
     type |-> "rss",
     keywords |-> << <<"A","I">>,
                   <<"m","a","c","h","i","n","e"," ","l","e","a","r","n","i","n","g">>,
                   <<"d","e","e","p"," ","l","e","a","r","n","i","n","g">> >>]
>>

----------------------------------------------------------------------------
(* parse_rss_feed called on its own: the inputs *)

S_OpenAIShipsGPT ==
    <<"O","p","e","n","A","I"," ","s","h","i","p","s"," ","G","P","T">>
S_PaddedUntitled == <<" ","U","n","t","i","t","l","e","d","\n">>
S_GeminiUpdate == <<"G","e","m","i","n","i"," ","u","p","d","a","t","e">>
S_LowerUntitled == <<"u","n","t","i","t","l","e","d">>
S_Link1 == <<"h","t","t","p","s",":","/","/","a","/","1">>
S_Link2 == <<"h","t","t","p","s",":","/","/","a","/","2">>
S_Hello == <<"H","e","l","l","o">>
S_World == <<"W","o","r","l","d">>
S_VarX == <<"v","a","r"," ","x">>

\* "<p>Hello <b>World</b></p><script>var x</script>"
HelloWorldHtml ==
    Html(<<StartTag("p"), Data(S_Hello \o <<" ">>), StartTag("b"),
           Data(S_World), EndTag("b"), EndTag("p"),
           StartTag("script"), Data(S_VarX), EndTag("script")>>)

\* an RSS item with a title, a link, a description and an RFC-822 date
ItemFull ==
    [EmptyItem EXCEPT !.title = TextElem(S_OpenAIShipsGPT),
                      !.link = LinkElem(S_Link1, <<>>),
                      !.description = HtmlElem(HelloWorldHtml),
                      !.pubDate = DateElem(RawDate("rfc822 offset", 1, 2))]
\* an item whose title is "Untitled" with white space around it
ItemUntitled ==
    [EmptyItem EXCEPT !.title = TextElem(S_PaddedUntitled),
                      !.link = LinkElem(S_Link2, <<>>),
                      !.pubDate = DateElem(RawDate("rfc822 name", 2, 0))]
\* an Atom entry: namespaced title and link, no description, no date
ItemAtom ==
    [EmptyItem EXCEPT !.atom_title = TextElem(S_GeminiUpdate),
                      !.atom_link = LinkElem(<<>>, S_Link2)]
\* no title element at all
ItemNoTitle ==
    [EmptyItem EXCEPT !.description = HtmlElem(HelloWorldHtml)]
\* an empty plain title element hides the Atom title
ItemEmptyTitle ==
    [EmptyItem EXCEPT !.title = TextElem(<<>>),
                      !.atom_title = TextElem(S_GeminiUpdate)]
\* a title of white space only
ItemBlankTitle == [EmptyItem EXCEPT !.title = TextElem(<<" ", "\n", " ">>)]
\* "untitled" in lower case is a title like any other
ItemLowerUntitled ==
    [EmptyItem EXCEPT !.title = TextElem(S_LowerUntitled),
                      !.link = LinkElem(S_Link1, S_Link2),
                      !.atom_updated = DateElem(RawDate("garbage", 0, 0))]
\* a plain description of n characters, in the Atom summary element
ItemDescLen(n) ==
    [EmptyItem EXCEPT !.title = TextElem(S_OpenAIShipsGPT),
                      !.atom_summary = HtmlElem(Html(<<Data(Repeat("x", n))>>)),
                      !.link = LinkElem(<<>>, S_Link1),
                      !.atom_published = DateElem(RawDate("iso Z", 3, 0))]
\* a description on which HTMLParser raises: the regex fallback keeps all text
ItemBrokenDesc(n) ==
    [EmptyItem EXCEPT !.title = TextElem(S_GeminiUpdate),
                      !.link = LinkElem(S_Link1, <<>>),
                      !.atom_link = LinkElem(<<>>, S_Link2),
                      !.atom_content =
                          HtmlElem(BrokenHtml(<<StartTag("p"), Data(<<" ">>),
                                                Data(Repeat("y", n))>>)),
                      !.pubDate = DateElem(RawDate("date", 2, 0))]

RECURSIVE SeqsUpTo(_, _)
\* the sequences of at most n elements of S
SeqsUpTo(S, n) ==
    IF n = 0 THEN {<<>>}
    ELSE LET shorter == SeqsUpTo(S, n - 1)
         IN  shorter \cup {Append(s, x) : s \in shorter, x \in S}

ParseContents ==
    {PyNone, EmptyBody, MalformedXml}
    \cup {Document(s, <<>>) : s \in SeqsUpTo({ItemFull, ItemUntitled, ItemAtom}, MaxItems)}
    \cup {Document(<<>>, <<ItemAtom, ItemUntitled, ItemFull>>),
          Document(<<ItemFull>>, <<ItemAtom>>),
          Document(<<ItemNoTitle, ItemEmptyTitle, ItemFull, ItemBlankTitle,
                     ItemLowerUntitled, ItemAtom>>, <<>>),
          Document(<<ItemLowerUntitled, ItemBrokenDesc(1), ItemDescLen(1)>>, <<>>),
          Document(<<ItemDescLen(MaxSummaryLen), ItemDescLen(MaxSummaryLen + 1),
                     ItemDescLen(MaxSummaryLen + 10),
                     ItemBrokenDesc(MaxSummaryLen), ItemBrokenDesc(TruncatedLen)>>,
                   <<>>)}

\* the longest source name whose default summary still has 300 characters
LongestFittingName == Repeat("n", MaxSummaryLen - Len(S_LatestNewsFrom))

\* (source name, keyword list) pairs: a registry entry, and longer names
ParseSources ==
    {<<NEWS_SOURCES[2].name, NEWS_SOURCES[2].keywords>>,
     <<LongestFittingName, <<>> >>,
     <<LongestFittingName \o <<"n">>, <<>> >>}

\* what the clock reads when a call starts
ClockStart == 5

ParseIdle ==
    /\ content = PyNone /\ source_name = <<>> /\ keywords = <<>>
    /\ parse_pc = "idle" /\ parsed = Ok(<<>>)

AggIdle ==
    /\ max_articles = 0 /\ pc = "idle" /\ src_idx = 0
    /\ all_articles = <<>> /\ successful_sources = 0
    /\ fetch_log = <<>> /\ result = Ok([articles |-> <<>>, summary |-> <<>>])
    /\ clock = ClockStart

SumIdle ==
    /\ sum_articles = <<>> /\ sum_pc = "idle" /\ themes = <<>>
    /\ summary_parts = <<>> /\ summary = <<>>

DateIdle ==
    /\ raw_date = EmptyDateStr /\ date_pc = "idle"
    /\ date_out = isoformat(Naive(0))

HtmlIdle ==
    /\ html_events = <<>> /\ html_pos = 0 /\ parser = HTMLTextExtractor
    /\ html_pc = "idle" /\ html_out = <<>>

\* a Python list and a Python dict, told apart as isinstance tells them
PyList(items) == [kind |-> "list", items |-> items]
PyDict(val)   == [kind |-> "dict", val |-> val]

\* agent.py lines 30-35
InitialDashboardState ==
    [user_name |-> "there", podcast_link |-> "", articles |-> PyList(<<>>),
     ready |-> FALSE]

\* a request body: no body at all (Content-Length 0 or absent), bytes that
\* are not UTF-8, text that is not JSON, the JSON value null, or a JSON
\* object with the fields `has`
HttpBody(kind, has) == [kind |-> kind, has |-> has]

\* the answer to a request: the status sent or the exception that escaped
\* the handler, with the request it answers
Answer(resp, path, body) ==
    [exc |-> resp.exc, val |-> resp.val, path |-> path, body |-> body]

NoResponse == Answer(Ok(0), "", HttpBody("empty", {}))

DashIdle ==
    /\ dashboard_state = InitialDashboardState
    /\ NEWS_FETCHER_AVAILABLE = TRUE
    /\ threads = <<>>
    /\ http_response = NoResponse
    /\ handled = 0
    /\ last_mutation = "none"

InitParse ==
    /\ content \in ParseContents
    /\ \E s \in ParseSources : source_name = s[1] /\ keywords = s[2]
    /\ parse_pc = "call"
    /\ parsed = Ok(<<>>)
    /\ AggIdle
    /\ SumIdle /\ DateIdle /\ HtmlIdle
    /\ DashIdle

\* articles = parse_rss_feed(content, source_name, keywords)
ParseCall ==
    /\ parse_pc = "call"
    /\ parsed' = parse_rss_feed(content, source_name, keywords, clock)
    /\ parse_pc' = "returned"
    /\ UNCHANGED <<content, source_name, keywords>>
    /\ UNCHANGED <<agg_vars, sum_vars, date_vars, html_vars, dash_vars>>

NextParse == ParseCall

SpecParse == InitParse /\ [][NextParse]_vars

----------------------------------------------------------------------------
(* Claims about parse_rss_feed, checked under SpecParse *)

\* the item nodes the call looks at, and those among them the cap lets through
CallItems == FindItems(content)
CappedItems == Prefix(CallItems, MaxItemsPerSource)

\* the text of the title element the parser resolves, before any trimming
RawTitle(item) ==
    IF item.title.present THEN item.title.text
    ELSE IF item.atom_title.present THEN item.atom_title.text
    ELSE <<>>

\* missing, empty, white space only, or "Untitled" once trimmed
Untitled(item) == strip(RawTitle(item)) \in {<<>>, S_Untitled}

RECURSIVE IsSubsequence(_, _)
\* a is b with some elements left out
IsSubsequence(a, b) ==
    IF a = <<>> THEN TRUE
    ELSE IF b = <<>> THEN FALSE
    ELSE IF Head(a) = Head(b) THEN IsSubsequence(Tail(a), Tail(b))
    ELSE IsSubsequence(a, Tail(b))

\* C7: parse_rss_feed never raises, whatever the content, the source name
\* and the keyword list; content that is not well-formed XML (None, the empty
\* string, malformed text) yields the empty article sequence.
C7_ParseNeverRaises ==
    parse_pc = "returned" =>
        /\ parsed.exc = "none"
        /\ content.kind # "xml" => parsed.val = <<>>

C7_Witness ==
    /\ parse_pc = "returned"
    /\ content.kind = "malformed"
    /\ parsed = Ok(<<>>)

\* C8: at most 5 articles come back, in document order, each from one of the
\* first 5 item nodes: the titles returned are the titles of the first five
\* nodes with some left out, so a node skipped among the first five is not
\* replaced by the sixth or a later one.
C8_CapBeforeSkip ==
    parse_pc = "returned" =>
        /\ Len(parsed.val) <= MaxItemsPerSource
        /\ IsSubsequence([i \in 1..Len(parsed.val) |-> parsed.val[i].title],
                         [i \in 1..Len(CappedItems) |-> strip(RawTitle(CappedItems[i]))])

C8_Witness ==
    /\ parse_pc = "returned"
    /\ Len(CallItems) > MaxItemsPerSource
    /\ \E i \in 1..MaxItemsPerSource : Untitled(CallItems[i])
    /\ ~Untitled(CallItems[MaxItemsPerSource + 1])
    /\ Len(parsed.val) = MaxItemsPerSource - 1

\* C9: every article returned has a non-empty title other than "Untitled";
\* an item whose title is missing, empty, white space only or "Untitled"
\* once trimmed is dropped, and every other item among those looked at is
\* emitted.
C9_NoUntitled ==
    parse_pc = "returned" =>
        /\ \A i \in 1..Len(parsed.val) :
               strip(parsed.val[i].title) \notin {<<>>, S_Untitled}
        /\ [i \in 1..Len(parsed.val) |-> parsed.val[i].title]
             = LET kept == SelectSeq(CappedItems, LAMBDA it : ~Untitled(it))
               IN  [i \in 1..Len(kept) |-> strip(RawTitle(kept[i]))]

C9_Witness ==
    /\ parse_pc = "returned"
    /\ \E i, j, k \in 1..Len(CappedItems) :
          /\ i < j /\ j < k
          /\ ~Untitled(CappedItems[i])
          /\ RawTitle(CappedItems[j]) = S_PaddedUntitled
          /\ ~Untitled(CappedItems[k])
    /\ Len(parsed.val) >= 2

\* C10: the summary of every article parse_rss_feed returns has at most 300
\* characters, for every content, source name and keyword list, the default
\* summary built from the source name included.
C10_SummaryAtMost300 ==
    parse_pc = "returned" =>
        \A i \in 1..Len(parsed.val) : Len(parsed.val[i].summary) <= MaxSummaryLen

\* the items an article is made of: those among the looked-at ones with a title
KeptItems == SelectSeq(CappedItems, LAMBDA it : ~Untitled(it))

\* the plain text of the description element the parser resolves
PlainDescription(item) ==
    LET elem == IF item.description.present THEN item.description
                ELSE IF item.atom_summary.present THEN item.atom_summary
                ELSE item.atom_content
    IN  IF elem.present /\ elem.html.events # <<>> THEN strip_html(elem.html)
        ELSE <<>>

\* C11: a plain-text description longer than 300 characters becomes its first
\* 297 characters followed by "..." (exactly 300 characters), and one of 300
\* characters or fewer is kept unchanged; the summary of the article is that
\* description trimmed, or the default sentence when nothing is left.
C11_TruncatedTo300 ==
    parse_pc = "returned" =>
        /\ Len(parsed.val) = Len(KeptItems)
        /\ \A i \in 1..Len(parsed.val) :
               LET plain == PlainDescription(KeptItems[i])
                   description ==
                       IF Len(plain) > 300
                       THEN SubSeq(plain, 1, 297) \o <<".", ".", ".">>
                       ELSE plain
               IN  /\ Len(plain) > 300 => Len(description) = 300
                   /\ parsed.val[i].summary
                        = OrStr(strip(description), S_LatestNewsFrom \o source_name)

C11_Witness ==
    /\ parse_pc = "returned"
    /\ \E i, j \in 1..Len(parsed.val) :
          /\ Len(PlainDescription(KeptItems[i])) = 310
          /\ parsed.val[i].summary = Repeat("x", 297) \o <<".", ".", ".">>
          /\ Len(PlainDescription(KeptItems[j])) = 300
          /\ parsed.val[j].summary = PlainDescription(KeptItems[j])

\* C14 as stated: the text of the plain link element is preferred, its href
\* attribute is read only when the text is absent, and the Atom link's href is
\* used only when the plain element gives no link.
C14_TextPreferred ==
    parse_pc = "returned" =>
        \A i \in 1..Len(parsed.val) :
            LET item == KeptItems[i]
                plain == item.link
                link == parsed.val[i].link
            IN  /\ (plain.present /\ plain.text # <<>>) => link = strip(plain.text)
                /\ (plain.present /\ plain.text = <<>> /\ plain.href # <<>>)
                       => link = strip(plain.href)
                /\ (~plain.present \/ (plain.text = <<>> /\ plain.href = <<>>))
                       => link = IF item.atom_link.present
                                 THEN strip(item.atom_link.href) ELSE <<>>

\* C14, amended: the href attribute of the plain link element is preferred;
\* its text is used only when the href is absent or empty, and the Atom
\* link's href is used only when the plain element gives no link.
C14_HrefPreferred ==
    parse_pc = "returned" =>
        \A i \in 1..Len(parsed.val) :
            LET item == KeptItems[i]
                plain == item.link
                link == parsed.val[i].link
            IN  /\ (plain.present /\ plain.href # <<>>) => link = strip(plain.href)
                /\ (plain.present /\ plain.href = <<>> /\ plain.text # <<>>)
                       => link = strip(plain.text)
                /\ (~plain.present \/ (plain.text = <<>> /\ plain.href = <<>>))
                       => link = IF item.atom_link.present
                                 THEN strip(item.atom_link.href) ELSE <<>>

C14_Witness ==
    /\ parse_pc = "returned"
    /\ \E i \in 1..Len(parsed.val) :
          /\ KeptItems[i].link.present
          /\ KeptItems[i].link.text = S_Link1
          /\ KeptItems[i].link.href = S_Link2
          /\ parsed.val[i].link = S_Link2
    /\ \E i \in 1..Len(parsed.val) :
          /\ KeptItems[i].link = LinkElem(S_Link1, <<>>)
          /\ KeptItems[i].atom_link.present
          /\ parsed.val[i].link = S_Link1

----------------------------------------------------------------------------
(* fetch_url and fetch_news_from_source.  What a URL answers is a          *)
(* transport error (timeout, DNS failure, HTTP error) or a body.           *)

TransportError == [status |-> "error", body |-> PyNone]
Body(c)        == [status |-> "ok",    body |-> c]

\* urllib.request.urlopen(...).read().decode(...)
urlopen(response) ==
    IF response.status = "error" THEN Raise("URLError", PyNone)
    ELSE Ok(response.body)

\* the mutant of fetch_url: the transport error is not caught
fetch_url_NoExcept(response) == urlopen(response)

\* lines 139-153: any exception becomes None
fetch_url(response) ==
    LET r == urlopen(response)
    IN  IF r.exc = "none" THEN r ELSE Ok(PyNone)

\* lines 270-281
fetch_news_from_source(source, response, now) ==
    LET fetched == fetch_url(response)
    IN  IF fetched.exc # "none" THEN Raise(fetched.exc, <<>>)
        ELSE IF fetched.val.kind \in {"None", "empty"} THEN Ok(<<>>)
        ELSE IF source.type = "rss"
             THEN parse_rss_feed(fetched.val, source.name, source.keywords, now)
             ELSE Ok(<<>>)

----------------------------------------------------------------------------
(* generate_daily_summary *)

S_NoNews ==
    <<"N","o"," ","n","e","w","s"," ","a","v","a","i","l","a","b","l","e"," ",
      "y","e","t","."," ","C","l","i","c","k"," ","S","t","a","r","t"," ","t",
      "o"," ","f","e","t","c","h"," ","t","h","e"," ","l","a","t","e","s","t",
      " ","A","I"," ","u","p","d","a","t","e","s",".">>
S_Opening ==
    <<"H","e","r","e","'","s"," ","w","h","a","t","'","s"," ","h","a","p","p",
      "e","n","i","n","g"," ","i","n"," ","t","h","e"," ","w","o","r","l","d",
      " ","o","f"," ","A","I"," ","o","n"," ">>
S_BigTech ==
    <<"\n","\n","*","*","B","i","g"," ","T","e","c","h"," ","M","o","v","e","s",
      ":","*","*"," ">>
S_MadeHeadlines ==
    <<" ","m","a","d","e"," ","h","e","a","d","l","i","n","e","s"," ","t","o",
      "d","a","y","."," ">>
S_Funding ==
    <<"\n","\n","*","*","I","n","v","e","s","t","m","e","n","t"," ","&"," ","F",
      "u","n","d","i","n","g",":","*","*"," ">>
S_Products ==
    <<"\n","\n","*","*","P","r","o","d","u","c","t"," ","U","p","d","a","t","e",
      "s",":","*","*"," ">>
S_Research ==
    <<"\n","\n","*","*","R","e","s","e","a","r","c","h"," ","&"," ","I","n","n",
      "o","v","a","t","i","o","n",":","*","*"," ">>
S_Regulation ==
    <<"\n","\n","*","*","P","o","l","i","c","y"," ","&"," ","R","e","g","u","l",
      "a","t","i","o","n",":","*","*"," ">>
S_Other ==
    <<"\n","\n","*","*","A","l","s","o"," ","n","o","t","e","w","o","r","t","h",
      "y",":","*","*"," ">>
S_Closing ==
    <<"\n","\n","S","c","r","o","l","l"," ","d","o","w","n"," ","f","o","r"," ",
      "m","o","r","e"," ","d","e","t","a","i","l","s"," ","o","n"," ","e","a",
      "c","h"," ","s","t","o","r","y",".">>
S_Today ==
    <<"F","r","i","d","a","y",","," ","D","e","c","e","m","b","e","r"," ">>

BigTechWords ==
    << <<"o","p","e","n","a","i">>,
       <<"g","o","o","g","l","e">>,
       <<"m","i","c","r","o","s","o","f","t">>,
       <<"a","n","t","h","r","o","p","i","c">>,
       <<"n","v","i","d","i","a">>,
       <<"m","e","t","a">> >>
FundingWords ==
    << <<"f","u","n","d","i","n","g">>,
       <<"r","a","i","s","e","s">>,
       <<"v","a","l","u","a","t","i","o","n">>,
       <<"i","n","v","e","s","t","m","e","n","t">>,
       <<"b","i","l","l","i","o","n">>,
       <<"m","i","l","l","i","o","n">> >>
ProductWords ==
    << <<"l","a","u","n","c","h">>,
       <<"r","e","l","e","a","s","e">>,
       <<"i","n","t","r","o","d","u","c","e">>,
       <<"a","n","n","o","u","n","c","e">>,
       <<"n","e","w">>,
       <<"u","p","d","a","t","e">> >>
ResearchWords ==
    << <<"r","e","s","e","a","r","c","h">>,
       <<"s","t","u","d","y">>,
       <<"p","a","p","e","r">>,
       <<"d","i","s","c","o","v","e","r">>,
       <<"b","r","e","a","k","t","h","r","o","u","g","h">> >>
RegulationWords ==
    << <<"e","u">>,
       <<"r","e","g","u","l","a","t","i","o","n">>,
       <<"l","a","w">>,
       <<"p","o","l","i","c","y">>,
       <<"g","o","v","e","r","n","m","e","n","t">> >>
\* line 330, and the same names in sorted() order
Companies ==
    << <<"O","p","e","n","A","I">>,
       <<"G","o","o","g","l","e">>,
       <<"M","i","c","r","o","s","o","f","t">>,
       <<"A","n","t","h","r","o","p","i","c">>,
       <<"N","V","I","D","I","A">>,
       <<"M","e","t","a">> >>
SortedCompanyNames ==
    << <<"A","n","t","h","r","o","p","i","c">>,
       <<"G","o","o","g","l","e">>,
       <<"M","e","t","a">>,
       <<"M","i","c","r","o","s","o","f","t">>,
       <<"N","V","I","D","I","A">>,
       <<"O","p","e","n","A","I">> >>

\* any(x in text for x in words)
AnyIn(words, text) == \E i \in 1..Len(words) : Contains(text, words[i])

\* the mutant of ThemeOf: the funding words are looked for first
ThemeOf_FundingFirst(article) ==
    LET title_lower == lower(article.title)
    IN  CASE AnyIn(FundingWords, title_lower)    -> "funding"
          [] AnyIn(BigTechWords, title_lower)    -> "big_tech"
          [] AnyIn(ProductWords, title_lower)    -> "products"
          [] AnyIn(ResearchWords, title_lower)   -> "research"
          [] AnyIn(RegulationWords, title_lower) -> "regulation"
          [] OTHER                               -> "other"

\* lines 303-317: the if/elif chain
ThemeOf(article) ==
    LET title_lower == lower(article.title)
    IN  CASE AnyIn(BigTechWords, title_lower)    -> "big_tech"
          [] AnyIn(FundingWords, title_lower)    -> "funding"
          [] AnyIn(ProductWords, title_lower)    -> "products"
          [] AnyIn(ResearchWords, title_lower)   -> "research"
          [] AnyIn(RegulationWords, title_lower) -> "regulation"
          [] OTHER                               -> "other"

\* themes[theme] after the loop of lines 302-317
Themes(articles, theme) ==
    SelectSeq(articles, LAMBDA a : ThemeOf(a) = theme)

RECURSIVE JoinComma(_)
\* ', '.join(parts)
JoinComma(parts) ==
    IF parts = <<>> THEN <<>>
    ELSE IF Len(parts) = 1 THEN Head(parts)
    ELSE Head(parts) \o <<",", " ">> \o JoinComma(Tail(parts))

\* the mutant of CompaniesIn: the names are looked for as they are spelled
CompaniesIn_CaseSensitive(big_tech) ==
    {c \in {Companies[i] : i \in 1..Len(Companies)} :
        \E k \in 1..Len(Prefix(big_tech, 3)) :
            Contains(big_tech[k].title, c)}

\* lines 328-332: the company names found in the first three big_tech titles
CompaniesIn(big_tech) ==
    {c \in {Companies[i] : i \in 1..Len(Companies)} :
        \E k \in 1..Len(Prefix(big_tech, 3)) :
            Contains(lower(big_tech[k].title), lower(c))}

Digits == <<"0","1","2","3","4","5","6","7","8","9">>

\* datetime.now().strftime("%A, %B %d"): the clock reading is the day
strftime_today(now) ==
    S_Today \o <<Digits[((now \div 10) % 10) + 1], Digits[(now % 10) + 1]>>

\* one paragraph of lines 340-353
Paragraph(label, themed) ==
    IF themed # <<>> THEN << label \o themed[1].title \o <<".">> >> ELSE <<>>

\* the mutant of OtherNeeded: the opening sentence is not counted
OtherNeeded_OpeningNotCounted(parts, other) ==
    Len(parts) - 1 < 4 /\ other # <<>>

\* line 356: parts is summary_parts, the opening sentence included
OtherNeeded(parts, other) == Len(parts) < 4 /\ other # <<>>

\* lines 320-360
SummaryParts(articles, now) ==
    LET big_tech == Themes(articles, "big_tech")
        companies == CompaniesIn(big_tech)
        opening == << S_Opening \o strftime_today(now) \o <<":">> >>
        bigtech_part ==
            IF big_tech # <<>> /\ companies # {}
            THEN << S_BigTech
                    \o JoinComma(SelectSeq(SortedCompanyNames,
                                           LAMBDA c : c \in companies))
                    \o S_MadeHeadlines \o big_tech[1].title \o <<".">> >>
            ELSE <<>>
        themed == opening \o bigtech_part
                  \o Paragraph(S_Funding, Themes(articles, "funding"))
                  \o Paragraph(S_Products, Themes(articles, "products"))
                  \o Paragraph(S_Research, Themes(articles, "research"))
                  \o Paragraph(S_Regulation, Themes(articles, "regulation"))
        other == Themes(articles, "other")
        extra == IF OtherNeeded(themed, other)
                 THEN << S_Other \o other[1].title \o <<".">> >> ELSE <<>>
    IN  themed \o extra \o << S_Closing >>

\* lines 284-362
generate_daily_summary(articles, now) ==
    IF articles = <<>> THEN S_NoNews
    ELSE Concat(SummaryParts(articles, now))

\* lines 293-300: the keys of the themes dict
ThemeNames == {"big_tech", "funding", "products", "research", "regulation", "other"}

\* lines 302-317: the themes dict after the loop
Categorize(articles) == [t \in ThemeNames |-> Themes(articles, t)]

----------------------------------------------------------------------------
(* generate_daily_summary called on its own *)

\* the longest article list handed to generate_daily_summary on its own
MaxSummaryArticles == 6

S_OpenAIRaisesFunding == <<"O","p","e","n","A","I"," ","r","a","i","s","e","s"," ","f","u","n","d","i","n","g">>
S_StartupRaisesMillions == <<"S","t","a","r","t","u","p"," ","r","a","i","s","e","s"," ","m","i","l","l","i","o","n","s">>
S_NewStudy == <<"N","e","w"," ","s","t","u","d","y">>
S_PaperOnProteins == <<"P","a","p","e","r"," ","o","n"," ","p","r","o","t","e","i","n","s">>
S_EuAiLawShort == <<"E","U"," ","A","I"," ","l","a","w">>
S_ChipShortageEases == <<"C","h","i","p"," ","s","h","o","r","t","a","g","e"," ","e","a","s","e","s">>
S_RobotsAtWork == <<"R","o","b","o","t","s"," ","a","t"," ","w","o","r","k">>
S_AiAtMetaAndNvidia == <<"a","i"," ","a","t"," ","m","e","t","a"," ","a","n","d"," ","n","v","i","d","i","a">>

\* an article as parse_rss_feed makes it, with the given title
Headline(title) ==
    [source |-> NEWS_SOURCES[1].name, title |-> title, summary |-> S_Hello,
     date |-> isoformat(Naive(1)), link |-> S_Link1, highlights |-> <<>>,
     overview |-> <<>>]

\* one or two articles for every theme; the first mentions a company and a
\* funding word, the fourth a product word and a research word, the last
\* names two companies in lower case
SummaryPool ==
    <<Headline(S_OpenAIRaisesFunding), Headline(S_StartupRaisesMillions),
      Headline(S_GeminiUpdate), Headline(S_NewStudy),
      Headline(S_PaperOnProteins), Headline(S_EuAiLawShort),
      Headline(S_ChipShortageEases), Headline(S_RobotsAtWork),
      Headline(S_AiAtMetaAndNvidia)>>

\* the articles of the pool at the positions ps, in pool order
Pick(pool, ps) ==
    LET idx == SelectSeq([i \in 1..Len(pool) |-> i], LAMBDA i : i \in ps)
    IN  [k \in 1..Len(idx) |-> pool[idx[k]]]

Reversed(seq) == [i \in 1..Len(seq) |-> seq[Len(seq) + 1 - i]]

\* the article lists the summarizer is called with: at most
\* MaxSummaryArticles articles of the pool, in pool order or in reverse
SummaryInputs ==
    {Pick(pool, ps) :
        pool \in {SummaryPool, Reversed(SummaryPool)},
        ps \in {q \in SUBSET (1..Len(SummaryPool)) :
                    Cardinality(q) <= MaxSummaryArticles}}

InitSummary ==
    /\ sum_articles \in SummaryInputs
    /\ sum_pc = "call"
    /\ themes = <<>> /\ summary_parts = <<>> /\ summary = <<>>
    /\ ParseIdle /\ AggIdle /\ DateIdle /\ HtmlIdle
    /\ DashIdle

\* summary = generate_daily_summary(sum_articles); themes and summary_parts
\* are the locals when the call returns (never created for an empty list)
SummaryCall ==
    /\ sum_pc = "call"
    /\ themes' = IF sum_articles = <<>> THEN themes
                 ELSE Categorize(sum_articles)
    /\ summary_parts' = IF sum_articles = <<>> THEN summary_parts
                        ELSE SummaryParts(sum_articles, clock)
    /\ summary' = generate_daily_summary(sum_articles, clock)
    /\ sum_pc' = "returned"
    /\ UNCHANGED sum_articles
    /\ UNCHANGED <<parse_vars, agg_vars, date_vars, html_vars, dash_vars>>

NextSummary == SummaryCall

SpecSummary == InitSummary /\ [][NextSummary]_vars

----------------------------------------------------------------------------
(* Claims about generate_daily_summary, checked under SpecSummary *)

\* the five themes that have a paragraph of their own, in priority order
ThemePriority == <<"big_tech", "funding", "products", "research", "regulation">>

ThemeWords ==
    [big_tech |-> BigTechWords, funding |-> FundingWords,
     products |-> ProductWords, research |-> ResearchWords,
     regulation |-> RegulationWords]

ThemeLabel ==
    [big_tech |-> S_BigTech, funding |-> S_Funding, products |-> S_Products,
     research |-> S_Research, regulation |-> S_Regulation]

\* the lower-cased title of the article holds a word of the theme
Mentions(article, theme) == AnyIn(ThemeWords[theme], lower(article.title))

\* the first theme in priority order the article mentions, else "other"
FirstTheme(article) ==
    LET hits == {i \in 1..Len(ThemePriority) : Mentions(article, ThemePriority[i])}
    IN  IF hits = {} THEN "other"
        ELSE ThemePriority[CHOOSE i \in hits : \A j \in hits : i <= j]

StartsWith(s, prefix) ==
    Len(s) >= Len(prefix) /\ SubSeq(s, 1, Len(prefix)) = prefix

EndsWith(s, suffix) ==
    Len(s) >= Len(suffix) /\ SubSeq(s, Len(s) - Len(suffix) + 1, Len(s)) = suffix

SummaryReturned == sum_pc = "returned" /\ sum_articles # <<>>

\* C12: every article lands in exactly one of the six themes, the first it
\* mentions in the order big_tech, funding, products, research, regulation,
\* else other (one that mentions a company and a funding word is in big_tech
\* only); the six lists keep the input order and together hold every input
\* article exactly once.
C12_OneThemeEach ==
    SummaryReturned =>
        /\ DOMAIN themes = ThemeNames
        /\ \A t \in ThemeNames : IsSubsequence(themes[t], sum_articles)
        /\ \A i \in 1..Len(sum_articles) :
               {t \in ThemeNames :
                   \E k \in 1..Len(themes[t]) : themes[t][k] = sum_articles[i]}
                 = {FirstTheme(sum_articles[i])}
        /\ Len(themes["big_tech"]) + Len(themes["funding"])
             + Len(themes["products"]) + Len(themes["research"])
             + Len(themes["regulation"]) + Len(themes["other"])
             = Len(sum_articles)

C12_Witness ==
    /\ SummaryReturned
    /\ \E i \in 1..Len(sum_articles) :
          /\ Mentions(sum_articles[i], "big_tech")
          /\ Mentions(sum_articles[i], "funding")
          /\ themes["big_tech"] = <<sum_articles[i]>>
    /\ Len(themes["funding"]) = 1
    /\ Len(themes["other"]) = 2
    /\ Len(sum_articles) = MaxSummaryArticles

\* the parts of the narrative that are paragraphs of the five themes
ThemeParagraphs ==
    SelectSeq(summary_parts,
              LAMBDA part : \E i \in 1..Len(ThemePriority) :
                               StartsWith(part, ThemeLabel[ThemePriority[i]]))

OtherParagraphs ==
    SelectSeq(summary_parts, LAMBDA part : StartsWith(part, S_Other))

\* C15 as stated: with fewer than 4 theme paragraphs (the opening sentence is
\* not one) and a non-empty `other` list, one more paragraph made of the first
\* `other` title is appended, in particular with exactly 3 theme paragraphs.
C15_OtherWhenFewerThan4 ==
    SummaryReturned =>
        ((Len(ThemeParagraphs) < 4 /\ themes["other"] # <<>>)
            => OtherParagraphs = << S_Other \o themes["other"][1].title \o <<".">> >>)

\* C15, amended: the paragraph made of the first `other` title is appended
\* exactly when fewer than 3 theme paragraphs were produced and `other` is
\* not empty; it comes after the theme paragraphs, before the closing
\* sentence; with 3 or more theme paragraphs there is none.
C15_OtherWhenFewerThan3 ==
    SummaryReturned =>
        IF Len(ThemeParagraphs) < 3 /\ themes["other"] # <<>>
        THEN /\ OtherParagraphs = << S_Other \o themes["other"][1].title \o <<".">> >>
             /\ summary_parts[Len(summary_parts) - 1] = OtherParagraphs[1]
             /\ Len(summary_parts) = Len(ThemeParagraphs) + 3
        ELSE OtherParagraphs = <<>>

C15_Witness ==
    /\ SummaryReturned
    /\ Len(ThemeParagraphs) = 2
    /\ Len(themes["other"]) = 2
    /\ themes["other"][1].title = S_RobotsAtWork
    /\ OtherParagraphs = << S_Other \o S_RobotsAtWork \o <<".">> >>

\* the paragraph of a theme, made of the title of its first article
IsParagraphOf(part, theme) ==
    IF theme = "big_tech"
    THEN /\ StartsWith(part, S_BigTech)
         /\ EndsWith(part, S_MadeHeadlines \o themes[theme][1].title \o <<".">>)
    ELSE part = ThemeLabel[theme] \o themes[theme][1].title \o <<".">>

\* C16: for a non-empty input the narrative has exactly one paragraph for
\* every non-empty theme among big_tech, funding, products, research and
\* regulation, in that order, each made of the first article of its theme;
\* the Big Tech paragraph is there whenever big_tech is not empty.
C16_OneParagraphPerTheme ==
    SummaryReturned =>
        LET present == SelectSeq(ThemePriority, LAMBDA t : themes[t] # <<>>)
        IN  /\ Len(ThemeParagraphs) = Len(present)
            /\ \A k \in 1..Len(present) :
                   /\ summary_parts[k + 1] = ThemeParagraphs[k]
                   /\ IsParagraphOf(ThemeParagraphs[k], present[k])
            /\ themes["big_tech"] # <<>>
                   => StartsWith(summary_parts[2], S_BigTech)
            /\ summary = Concat(summary_parts)

C16_Witness ==
    /\ SummaryReturned
    /\ \A i \in 1..Len(ThemePriority) : themes[ThemePriority[i]] # <<>>
    /\ Len(themes["big_tech"]) = 2
    /\ themes["big_tech"][1].title = S_AiAtMetaAndNvidia
    /\ Len(ThemeParagraphs) = 5
    /\ Len(summary_parts) = 7

----------------------------------------------------------------------------
(* fetch_all_news *)

\* lines 376 and 386: the sources one run goes through
PrimarySources == Prefix(NEWS_SOURCES, MaxPrimary)
BackupSources == BACKUP_FEEDS

\* dict[key] = value
SetItem(dict, key, value) ==
    [k \in DOMAIN dict \cup {key} |-> IF k = key THEN value ELSE dict[k]]

\* the mutant of parse_date_for_sort: an aware date is converted to UTC
parse_date_for_sort_ToUtc(article, now) ==
    LET dt == fromisoformat(article.date)
    IN  IF dt.aware THEN Naive(dt.wall - dt.off) ELSE dt

\* the mutant of parse_date_for_sort: the tzinfo is kept
parse_date_for_sort_KeepTz(article, now) == fromisoformat(article.date)

\* lines 398-407: an isoformat() string holds no "Z" and always parses, so
\* the replace changes nothing and the except branch is not taken
parse_date_for_sort(article, now) ==
    LET dt == fromisoformat(article.date)
    IN  IF dt.aware THEN Naive(dt.wall) ELSE dt

\* a < b on datetimes of one kind: aware ones compare as instants
DateLess(a, b) ==
    IF a.aware THEN a.wall - a.off < b.wall - b.off ELSE a.wall < b.wall

RECURSIVE InsertNewestFirst_BeforeEquals(_, _, _)
\* the mutant of InsertNewestFirst: x goes ahead of the elements whose key
\* equals its own
InsertNewestFirst_BeforeEquals(sorted, x, now) ==
    IF sorted = <<>> THEN <<x>>
    ELSE IF DateLess(parse_date_for_sort(x, now),
                     parse_date_for_sort(Head(sorted), now))
         THEN <<Head(sorted)>> \o InsertNewestFirst_BeforeEquals(Tail(sorted), x, now)
         ELSE <<x>> \o sorted

RECURSIVE InsertNewestFirst(_, _, _)
\* x goes behind every element whose key is not below its own
InsertNewestFirst(sorted, x, now) ==
    IF sorted = <<>> THEN <<x>>
    ELSE IF DateLess(parse_date_for_sort(Head(sorted), now),
                     parse_date_for_sort(x, now))
         THEN <<x>> \o sorted
         ELSE <<Head(sorted)>> \o InsertNewestFirst(Tail(sorted), x, now)

RECURSIVE StableSortNewestFirst(_, _)
StableSortNewestFirst(articles, now) ==
    IF articles = <<>> THEN <<>>
    ELSE InsertNewestFirst(
             StableSortNewestFirst(SubSeq(articles, 1, Len(articles) - 1), now),
             articles[Len(articles)], now)

\* the mutant of sort_newest_first: the list is left as accumulated
sort_newest_first_NoSort(articles, now) == Ok(articles)

\* line 409: list.sort(key=parse_date_for_sort, reverse=True) is stable;
\* comparing an aware key with a naive one raises TypeError
sort_newest_first(articles, now) ==
    IF \E i, j \in 1..Len(articles) :
           parse_date_for_sort(articles[i], now).aware
             # parse_date_for_sort(articles[j], now).aware
    THEN Raise("TypeError", articles)
    ELSE Ok(StableSortNewestFirst(articles, now))

\* the mutant of AddIds: ids counted from 0
AddIds_ZeroBased(top) == [i \in 1..Len(top) |-> SetItem(top[i], "id", i - 1)]

\* lines 412-415: enumerate counts from 0, the id is i + 1
AddIds(top) == [i \in 1..Len(top) |-> SetItem(top[i], "id", i)]

\* line 384
BackupNeeded(articles, max) == Len(articles) < max

\* the mutant of BackupBreak: > for >=
BackupBreak_Strict(articles, max) == Len(articles) > max * 2

\* line 387
BackupBreak(articles, max) == Len(articles) >= max * 2

\* the mutant of Summarize: the empty list gets the narrative too
Summarize_NoEmptyCase(top, now) == Concat(SummaryParts(top, now))

\* line 418
Summarize(top, now) == generate_daily_summary(top, now)

----------------------------------------------------------------------------
(* One run of fetch_all_news(max_articles); each URL answers when fetched *)

S_EuAiLaw == <<"E","U"," ","p","a","s","s","e","s"," ","A","I"," ","l","a","w">>

\* a dated item without link and description
ItemNaiveDate ==
    [EmptyItem EXCEPT !.title = TextElem(S_EuAiLaw),
                      !.pubDate = DateElem(RawDate("datetime", 7, 0))]

S_WestCoastDemo == <<"W","e","s","t"," ","c","o","a","s","t"," ","d","e","m","o">>
S_EastCoastDemo == <<"E","a","s","t"," ","c","o","a","s","t"," ","d","e","m","o">>
S_DatelessNote == <<"D","a","t","e","l","e","s","s"," ","n","o","t","e">>

\* wall-clock 1 like ItemFull, at another offset: the later instant of the two
ItemWest ==
    [EmptyItem EXCEPT !.title = TextElem(S_WestCoastDemo),
                      !.atom_published = DateElem(RawDate("iso offset", 1, 0 - 2))]
\* a later wall-clock value than ItemFull and ItemWest, an earlier instant
ItemEast ==
    [EmptyItem EXCEPT !.title = TextElem(S_EastCoastDemo),
                      !.pubDate = DateElem(RawDate("rfc822 offset", 2, 4))]
\* a date element whose text is in none of the formats
ItemGarbageDate ==
    [EmptyItem EXCEPT !.title = TextElem(S_DatelessNote),
                      !.pubDate = DateElem(RawDate("garbage", 0, 0))]

\* four articles: three dated with UTC offsets, one with an unreadable date
FeedOne == Document(<<ItemFull, ItemWest, ItemEast, ItemGarbageDate>>, <<>>)
\* three items, two articles: one undated, one with a naive date
FeedTwo == Document(<<ItemNoTitle, ItemAtom, ItemNaiveDate>>, <<>>)
\* a well-formed feed none of whose items has a title
FeedUntitled == Document(<<ItemUntitled, ItemBlankTitle>>, <<>>)

\* what a URL may answer, by name
ResponseNames ==
    {"transport error", "empty body", "malformed xml", "untitled feed",
     "feed one", "feed two"}

Response(name) ==
    CASE name = "transport error" -> TransportError
      [] name = "empty body"      -> Body(EmptyBody)
      [] name = "malformed xml"   -> Body(MalformedXml)
      [] name = "untitled feed"   -> Body(FeedUntitled)
      [] name = "feed one"        -> Body(FeedOne)
      [] name = "feed two"        -> Body(FeedTwo)

InitAgg ==
    /\ max_articles \in 1..MaxMaxArticles
    /\ pc = "primary"
    /\ src_idx = 1
    /\ all_articles = <<>>
    /\ successful_sources = 0
    /\ clock = ClockStart
    /\ fetch_log = <<>>
    /\ result = Ok([articles |-> <<>>, summary |-> <<>>])
    /\ ParseIdle
    /\ SumIdle /\ DateIdle /\ HtmlIdle
    /\ DashIdle

\* the mutant of FetchInto: a source that gave no article is fetched again
FetchInto_Retry(source, next_pc) ==
    \E answer \in ResponseNames :
    LET r == fetch_news_from_source(source, Response(answer), clock)
    IN  /\ fetch_log' = Append(fetch_log, [source |-> source.name,
                                           url |-> source.url,
                                           answer |-> answer])
        /\ IF r.exc # "none"
           THEN /\ pc' = "raised"
                /\ result' = Raise(r.exc, result.val)
                /\ UNCHANGED <<all_articles, successful_sources, clock, src_idx>>
           ELSE /\ all_articles' = all_articles \o r.val
                /\ successful_sources' =
                       IF r.val # <<>> THEN successful_sources + 1
                       ELSE successful_sources
                /\ clock' = clock + 1
                /\ IF r.val = <<>> /\ Len(fetch_log) < 2
                   THEN UNCHANGED <<src_idx, pc>>
                   ELSE src_idx' = src_idx + 1 /\ pc' = next_pc
                /\ UNCHANGED result

\* lines 377-381 and 389-393: one pass of either loop body on `source`;
\* fetch_news_from_source prints the source's name, time.sleep lets time pass
FetchInto(source, next_pc) ==
    \E answer \in ResponseNames :
    LET r == fetch_news_from_source(source, Response(answer), clock)
    IN  /\ fetch_log' = Append(fetch_log, [source |-> source.name,
                                           url |-> source.url,
                                           answer |-> answer])
        /\ IF r.exc # "none"
           THEN /\ pc' = "raised"
                /\ result' = Raise(r.exc, result.val)
                /\ UNCHANGED <<all_articles, successful_sources, clock, src_idx>>
           ELSE /\ all_articles' = all_articles \o r.val
                /\ successful_sources' =
                       IF r.val # <<>> THEN successful_sources + 1
                       ELSE successful_sources
                /\ clock' = clock + 1
                /\ src_idx' = src_idx + 1
                /\ pc' = next_pc
                /\ UNCHANGED result

\* lines 376-381, one iteration
FetchPrimary ==
    /\ pc = "primary"
    /\ src_idx <= Len(PrimarySources)
    /\ FetchInto(PrimarySources[src_idx],
                 IF src_idx = Len(PrimarySources) THEN "backup?" ELSE "primary")
    /\ UNCHANGED max_articles
    /\ UNCHANGED <<parse_vars, sum_vars, date_vars, html_vars, dash_vars>>

\* line 384
CheckBackup ==
    /\ pc = "backup?"
    /\ pc' = IF BackupNeeded(all_articles, max_articles) THEN "backup" ELSE "sort"
    /\ src_idx' = 1
    /\ UNCHANGED <<max_articles, all_articles, successful_sources, clock,
                   fetch_log, result>>
    /\ UNCHANGED <<parse_vars, sum_vars, date_vars, html_vars, dash_vars>>

\* lines 386-393, one iteration: the break, or one more fetch
FetchBackup ==
    /\ pc = "backup"
    /\ src_idx <= Len(BackupSources)
    /\ IF BackupBreak(all_articles, max_articles)
       THEN /\ pc' = "sort"
            /\ UNCHANGED <<all_articles, successful_sources, clock, src_idx,
                           fetch_log, result>>
       ELSE FetchInto(BackupSources[src_idx],
                      IF src_idx = Len(BackupSources) THEN "sort" ELSE "backup")
    /\ UNCHANGED max_articles
    /\ UNCHANGED <<parse_vars, sum_vars, date_vars, html_vars, dash_vars>>

\* lines 395-423: sort, cut, number, summarize, return
SortAndReturn ==
    /\ pc = "sort"
    /\ LET sorted == sort_newest_first(all_articles, clock)
       IN  IF sorted.exc # "none"
           THEN /\ pc' = "raised"
                /\ result' = Raise(sorted.exc, result.val)
                /\ UNCHANGED all_articles
           ELSE LET top == AddIds(Prefix(sorted.val, max_articles))
                IN  /\ all_articles' =
                           top \o SubSeq(sorted.val, Len(top) + 1, Len(sorted.val))
                    /\ result' = Ok([articles |-> top,
                                     summary |-> Summarize(top, clock)])
                    /\ pc' = "done"
    /\ UNCHANGED <<max_articles, successful_sources, clock, src_idx, fetch_log>>
    /\ UNCHANGED <<parse_vars, sum_vars, date_vars, html_vars, dash_vars>>

NextAgg == FetchPrimary \/ CheckBackup \/ FetchBackup \/ SortAndReturn

Spec == InitAgg /\ [][NextAgg]_vars

----------------------------------------------------------------------------
(* Claims about fetch_all_news, checked under Spec *)

\* the answers after which a source contributes no article
FailingAnswers ==
    {"transport error", "empty body", "malformed xml", "untitled feed"}

PrimaryNames == {PrimarySources[i].name : i \in 1..Len(PrimarySources)}
BackupNames == {BackupSources[i].name : i \in 1..Len(BackupSources)}

\* the accumulated articles that carry one of the given source names
ArticlesFrom(names) == SelectSeq(all_articles, LAMBDA a : a.source \in names)

\* the wall-clock date-time an article's ISO date spells, offset dropped
SortDate(article) == article.date.text

IsString(s) == DOMAIN s = 1..Len(s)

\* C1: fetch_all_news never lets an exception reach its caller: whatever each
\* source answers (transport failure, empty body, malformed XML, items
\* without title, link, description or date, dates with or without a UTC
\* offset), no step of the run raises, and the value returned is a dict of
\* an 'articles' list and a 'summary' string.
C1_NoExceptionEscapes ==
    /\ pc # "raised"
    /\ result.exc = "none"
    /\ pc = "done" =>
          /\ DOMAIN result.val = {"articles", "summary"}
          /\ IsString(result.val.articles)
          /\ IsString(result.val.summary)
          /\ result.val.summary # <<>>

\* a finished run that met a transport failure and malformed XML and sorted
\* an article dated with an offset together with one dated without
C1_Witness ==
    /\ pc = "done"
    /\ \E i \in 1..Len(fetch_log) : fetch_log[i].answer = "transport error"
    /\ \E i \in 1..Len(fetch_log) : fetch_log[i].answer = "malformed xml"
    /\ \E i, j \in 1..Len(all_articles) :
          /\ all_articles[i].date.suffix # <<>>
          /\ all_articles[j].date.suffix = <<>>

\* C2: when every source consulted fails (its fetch fails or its content
\* yields no article), the run returns no article and the summary is exactly
\* "No news available yet. Click Start to fetch the latest AI updates.".
C2_AllFailEmptyState ==
    (/\ pc = "done"
     /\ \A i \in 1..Len(fetch_log) : fetch_log[i].answer \in FailingAnswers)
    => /\ result.val.articles = <<>>
       /\ result.val.summary = S_NoNews

C2_Witness ==
    /\ pc = "done"
    /\ Len(fetch_log) = Len(PrimarySources) + Len(BackupSources)
    /\ \A i \in 1..Len(fetch_log) : fetch_log[i].answer \in FailingAnswers
    /\ \E i \in 1..Len(fetch_log) : fetch_log[i].answer = "transport error"
    /\ \E i \in 1..Len(fetch_log) : fetch_log[i].answer = "untitled feed"
    /\ result.val.summary = S_NoNews

\* C3: with A articles accumulated, the run returns exactly
\* N = min(max_articles, A) articles, and their ids are 1, 2, ..., N in the
\* order returned.
C3_ContiguousIds ==
    pc = "done" =>
        /\ Len(result.val.articles) = Min2(max_articles, Len(all_articles))
        /\ \A i \in 1..Len(result.val.articles) :
               /\ "id" \in DOMAIN result.val.articles[i]
               /\ result.val.articles[i].id = i

\* fetch_all_news(3) with 5 articles accumulated
C3_Witness ==
    /\ pc = "done"
    /\ max_articles = 3
    /\ Len(all_articles) = 6
    /\ Len(result.val.articles) = 3
    /\ result.val.articles[3].id = 3

\* C4: the articles returned are in non-increasing order of sort date, and
\* no accumulated article left out of the result has a sort date strictly
\* later than a returned one.
C4_NewestFirst ==
    pc = "done" =>
        LET out == result.val.articles
            left == SubSeq(all_articles, Len(out) + 1, Len(all_articles))
        IN  /\ \A i \in 1..(Len(out) - 1) : SortDate(out[i]) >= SortDate(out[i + 1])
            /\ \A i \in 1..Len(out) : \A j \in 1..Len(left) :
                   SortDate(left[j]) <= SortDate(out[i])
            /\ Len(out) + Len(left) = Len(all_articles)

\* a run whose accumulation order was not newest-first and that left out an
\* article older than every article returned
C4_Witness ==
    /\ pc = "done"
    /\ Len(all_articles) > Len(result.val.articles)
    /\ Len(result.val.articles) >= 2
    /\ SortDate(result.val.articles[1]) > SortDate(result.val.articles[2])
    /\ result.val.articles[1].source # fetch_log[1].source
    /\ SortDate(all_articles[Len(all_articles)]) < SortDate(result.val.articles[2])

\* how many primary sources the run is through
PrimariesDone ==
    IF pc = "primary" THEN src_idx - 1 ELSE Len(PrimarySources)

\* what the i-th primary source's answer parses to, read off the fetch log
ParsedFrom(i) ==
    IF fetch_log[i].answer \in FailingAnswers THEN <<>>
    ELSE parse_rss_feed(Response(fetch_log[i].answer).body,
                        PrimarySources[i].name, PrimarySources[i].keywords,
                        ClockStart + i - 1).val

\* C5: a failing source never aborts aggregation: the run never stops at a
\* failed source, every primary source is fetched, in registry order,
\* whichever of them failed before, and every article parsed from a primary
\* source is in the accumulated sequence.
C5_FailureNeverAborts ==
    /\ pc # "raised"
    /\ Len(fetch_log) >= PrimariesDone
    /\ \A i \in 1..PrimariesDone :
          /\ fetch_log[i].source = PrimarySources[i].name
          /\ LET mine == ArticlesFrom({PrimarySources[i].name})
             IN  /\ Len(mine) = Len(ParsedFrom(i))
                 /\ \A k \in 1..Len(mine) :
                        \E m \in 1..Len(mine) :
                            /\ mine[m].title = ParsedFrom(i)[k].title
                            /\ mine[m].date = ParsedFrom(i)[k].date

\* the first primary source failed in transport, a later one gave articles
C5_Witness ==
    /\ pc = "done"
    /\ fetch_log[1].answer = "transport error"
    /\ \E i \in 2..Len(PrimarySources) :
          /\ fetch_log[i].answer = "feed two"
          /\ Len(ArticlesFrom({PrimarySources[i].name})) = 2

\* how many articles were accumulated before the k-th fetch
AccumulatedBefore(k) ==
    Len(ArticlesFrom({fetch_log[j].source : j \in 1..(k - 1)}))

\* C6: a backup source is fetched only if the primary sources accumulated
\* fewer than max_articles articles, and only while fewer than
\* 2 * max_articles articles are accumulated.
C6_BackupOnlyWhenShort ==
    \A k \in 1..Len(fetch_log) :
        fetch_log[k].source \in BackupNames =>
            /\ Len(ArticlesFrom(PrimaryNames)) < max_articles
            /\ AccumulatedBefore(k) < 2 * max_articles

\* the backup pass stopped at exactly 2 * max_articles, one source unfetched
C6_Witness ==
    /\ pc = "done"
    /\ Len(fetch_log) = Len(PrimarySources) + 1
    /\ fetch_log[Len(fetch_log)].source \in BackupNames
    /\ Len(all_articles) = 2 * max_articles

----------------------------------------------------------------------------
(* parse_rss_date called on its own *)

\* the wall-clock values a raw date spells are 0..MaxWall
MaxWall == 9
\* the UTC offsets a raw date names are -MaxOffset..MaxOffset
MaxOffset == 2

\* the raw dates the normalizer is called with: None or "", white space
\* only, text in no listed format (an offset out of range included), and
\* text in each of the listed formats
DateInputs ==
    {RawDate(shape, 0, 0) : shape \in {"empty", "blank", "garbage"}}
    \cup {RawDate(shape, wall, 0) :
             shape \in {"rfc822 name", "rfc822 Z", "iso Z", "datetime", "date"},
             wall \in 0..MaxWall}
    \cup {RawDate(shape, wall, off) :
             shape \in {"rfc822 offset", "iso offset"},
             wall \in 0..MaxWall, off \in (0 - MaxOffset)..MaxOffset}

InitDate ==
    /\ raw_date \in DateInputs
    /\ date_pc = "call"
    /\ date_out = isoformat(Naive(0))
    /\ ParseIdle /\ AggIdle /\ SumIdle /\ HtmlIdle
    /\ DashIdle

\* date_out = parse_rss_date(raw_date)
DateCall ==
    /\ date_pc = "call"
    /\ date_out' = parse_rss_date(raw_date, clock)
    /\ date_pc' = "returned"
    /\ UNCHANGED raw_date
    /\ UNCHANGED <<parse_vars, agg_vars, sum_vars, html_vars, dash_vars>>

NextDate == DateCall

SpecDate == InitDate /\ [][NextDate]_vars

\* the listed formats the raw date is written in
MatchingFormats ==
    {i \in 1..Len(formats) : strptime(raw_date, formats[i]).exc = "none"}

\* C13: parse_rss_date returns an ISO string for every input; the formats are
\* tried in the listed order and the first that matches decides the result
\* (a date ending in Z is read by the %z format, before the literal-Z one, so
\* it comes out with a +00:00 offset); None, the empty string and text in no
\* listed format give the current wall-clock time.
C13_FirstFormatWins ==
    date_pc = "returned" =>
        /\ isoformat(fromisoformat(date_out)) = date_out
        /\ IF raw_date.shape = "empty" \/ MatchingFormats = {}
           THEN date_out = isoformat(Naive(clock))
           ELSE \E i \in MatchingFormats :
                   /\ \A j \in MatchingFormats : i <= j
                   /\ date_out = isoformat(strptime(raw_date, formats[i]).val)
        /\ raw_date.shape = "iso Z" => date_out = isoformat(Aware(raw_date.wall, 0))

C13_Witness ==
    /\ date_pc = "returned"
    /\ raw_date.shape = "iso Z"
    /\ Cardinality(MatchingFormats) = 2
    /\ raw_date.wall = MaxWall
    /\ date_out = [text |-> MaxWall, suffix |-> <<"+", 0>>]

----------------------------------------------------------------------------
(* strip_html called on its own, one parser callback at a time *)

\* longest event sequence of an HTML text handed to strip_html on its own
MaxHtmlEvents == 5

\* script and style are CDATA content elements of HTMLParser
CDataTags == {"script", "style"}

HtmlSymbols ==
    {StartTag("head"), EndTag("head"), StartTag("style"), EndTag("style"),
     EndTag("script"), Data(<<>>)}

\* what HTMLParser can make of a text: after the start tag of a CDATA
\* element everything up to its end tag is character data
Producible(events) ==
    \A i, j \in 1..Len(events) :
        (/\ i < j
         /\ events[i].kind = "start" /\ events[i].tag \in CDataTags
         /\ \A k \in (i + 1)..(j - 1) : events[k] # EndTag(events[i].tag))
        => (events[j].kind = "data" \/ events[j] = EndTag(events[i].tag))

\* every text node is one digit, the position of its event
Numbered(events) ==
    [i \in 1..Len(events) |->
        IF events[i].kind = "data" THEN Data(<<Digits[i + 1]>>) ELSE events[i]]

HtmlInputs ==
    {Numbered(events) : events \in {e \in SeqsUpTo(HtmlSymbols, MaxHtmlEvents) :
                                        Producible(e)}}

InitHtml ==
    /\ html_events \in HtmlInputs
    /\ html_pos = 0
    /\ parser = HTMLTextExtractor
    /\ html_pc = "call"
    /\ html_out = <<>>
    /\ ParseIdle /\ AggIdle /\ SumIdle /\ DateIdle
    /\ DashIdle

\* lines 128-131: "" for an empty text, else a new extractor is fed
StripHtmlCall ==
    /\ html_pc = "call"
    /\ IF html_events = <<>>
       THEN html_pc' = "returned" /\ html_out' = <<>>
       ELSE html_pc' = "feed" /\ UNCHANGED html_out
    /\ parser' = HTMLTextExtractor
    /\ UNCHANGED <<html_events, html_pos>>
    /\ UNCHANGED <<parse_vars, agg_vars, sum_vars, date_vars, dash_vars>>

\* the next event of the text, while the parser is fed
NextEvent == html_events[html_pos + 1]

Feeding(kind) ==
    /\ html_pc = "feed"
    /\ html_pos < Len(html_events)
    /\ NextEvent.kind = kind

HandleStartTag ==
    /\ Feeding("start")
    /\ parser' = handle_starttag(parser, NextEvent.tag)
    /\ html_pos' = html_pos + 1
    /\ UNCHANGED <<html_events, html_pc, html_out>>
    /\ UNCHANGED <<parse_vars, agg_vars, sum_vars, date_vars, dash_vars>>

HandleEndTag ==
    /\ Feeding("end")
    /\ parser' = handle_endtag(parser, NextEvent.tag)
    /\ html_pos' = html_pos + 1
    /\ UNCHANGED <<html_events, html_pc, html_out>>
    /\ UNCHANGED <<parse_vars, agg_vars, sum_vars, date_vars, dash_vars>>

HandleData ==
    /\ Feeding("data")
    /\ parser' = handle_data(parser, NextEvent.data)
    /\ html_pos' = html_pos + 1
    /\ UNCHANGED <<html_events, html_pc, html_out>>
    /\ UNCHANGED <<parse_vars, agg_vars, sum_vars, date_vars, dash_vars>>

\* line 133: return parser.get_text()
GetText ==
    /\ html_pc = "feed"
    /\ html_pos = Len(html_events)
    /\ html_out' = get_text(parser)
    /\ html_pc' = "returned"
    /\ UNCHANGED <<html_events, html_pos, parser>>
    /\ UNCHANGED <<parse_vars, agg_vars, sum_vars, date_vars, dash_vars>>

NextHtml ==
    StripHtmlCall \/ HandleStartTag \/ HandleEndTag \/ HandleData \/ GetText

SpecHtml == InitHtml /\ [][NextHtml]_vars

RECURSIVE OpenSkipped(_)
\* the script, style and head elements open after the events, innermost
\* last: an end tag closes the innermost open element of its name and what
\* is open inside it, and is stray when no element of its name is open
OpenSkipped(events) ==
    IF events = <<>> THEN <<>>
    ELSE LET open == OpenSkipped(SubSeq(events, 1, Len(events) - 1))
             e == events[Len(events)]
             same == {k \in 1..Len(open) : open[k] = e.tag}
         IN  IF e.kind = "start" /\ e.tag \in SkipTags THEN Append(open, e.tag)
             ELSE IF e.kind = "end" /\ same # {}
             THEN SubSeq(open, 1, (CHOOSE k \in same : \A m \in same : m <= k) - 1)
             ELSE open

\* the text node at position i lies inside an open script, style or head
InsideSkipped(i) ==
    /\ html_events[i].kind = "data"
    /\ OpenSkipped(SubSeq(html_events, 1, i - 1)) # <<>>

\* C17: the extractor never emits a text node that lies inside an open
\* script, style or head element, nested elements (text in head after a
\* closed style) and stray end tags included: such a text is neither among
\* the parts collected nor in the string returned.
C17_NoSkippedText ==
    \A i \in 1..html_pos :
        InsideSkipped(i) =>
            /\ \A k \in 1..Len(parser.text_parts) :
                   parser.text_parts[k] # html_events[i].data
            /\ ~Contains(html_out, html_events[i].data)

----------------------------------------------------------------------------
(* More claims about fetch_all_news, checked under Spec *)

\* the names of the sources fetched so far, in the order fetched
FetchedNames == [i \in 1..Len(fetch_log) |-> fetch_log[i].source]

\* C18: within one run each source is fetched at most once, a source that
\* failed included; the primary sources are fetched in registry order, and a
\* backup source only after every primary source, in the order of its list.
C18_EachSourceOnce ==
    /\ \A i, j \in 1..Len(fetch_log) : i # j => FetchedNames[i] # FetchedNames[j]
    /\ Len(fetch_log) <= Len(PrimarySources) + Len(BackupSources)
    /\ \A i \in 1..Len(fetch_log) :
           IF i <= Len(PrimarySources)
           THEN FetchedNames[i] = NEWS_SOURCES[i].name
           ELSE FetchedNames[i] = BACKUP_FEEDS[i - Len(PrimarySources)].name

C18_Witness ==
    /\ pc = "done"
    /\ Len(fetch_log) = Len(PrimarySources) + Len(BackupSources)
    /\ fetch_log[1].answer = "transport error"
    /\ fetch_log[Len(PrimarySources) + 1].answer = "malformed xml"
    /\ FetchedNames[Len(fetch_log)] = BACKUP_FEEDS[Len(BACKUP_FEEDS)].name

\* the instant an article's ISO date names: wall-clock minus UTC offset
Instant(article) ==
    IF article.date.suffix = <<>> THEN article.date.text
    ELSE article.date.text - article.date.suffix[2]

HasOffset(article) == article.date.suffix # <<>>

\* C19: the sort compares the wall-clock part of the dates only, the UTC
\* offset is dropped and not converted: an article with a later wall-clock
\* value comes first even when its instant is the earlier one, and two
\* articles with the same wall-clock value have equal sort keys whatever
\* their offsets.
C19_WallClockOnly ==
    pc = "done" =>
        \A i, j \in 1..Len(all_articles) :
            /\ SortDate(all_articles[i]) > SortDate(all_articles[j]) => i < j
            /\ SortDate(all_articles[i]) = SortDate(all_articles[j])
                  => parse_date_for_sort(all_articles[i], clock)
                       = parse_date_for_sort(all_articles[j], clock)

C19_Witness ==
    /\ pc = "done"
    /\ \E i, j \in 1..Len(result.val.articles) :
          /\ i < j
          /\ HasOffset(all_articles[i]) /\ HasOffset(all_articles[j])
          /\ SortDate(all_articles[i]) > SortDate(all_articles[j])
          /\ Instant(all_articles[i]) < Instant(all_articles[j])
    /\ \E i, j \in 1..Len(all_articles) :
          /\ SortDate(all_articles[i]) = SortDate(all_articles[j])
          /\ HasOffset(all_articles[i]) /\ HasOffset(all_articles[j])
          /\ all_articles[i].date.suffix # all_articles[j].date.suffix

\* the items of the feeds a URL may answer with
FeedItems ==
    {ItemFull, ItemWest, ItemEast, ItemGarbageDate, ItemNoTitle, ItemAtom,
     ItemNaiveDate}

\* the raw date text of the item the article was made of
RawDateOf(article) ==
    ItemDateStr(CHOOSE item \in FeedItems : ItemTitle(item) = article.title)

\* the raw date is missing, or in none of the listed formats
Unreadable(date_str) ==
    \/ date_str.shape = "empty"
    \/ \A i \in 1..Len(formats) : strptime(date_str, formats[i]).exc # "none"

\* C20: an article whose raw date is missing or matches no format carries a
\* time of the run (not before its start), and in the sorted list it comes
\* before every article whose parsed wall-clock date is earlier than the
\* start of the run.
C20_UndatedSortsFirst ==
    pc = "done" =>
        \A i \in 1..Len(all_articles) :
            Unreadable(RawDateOf(all_articles[i])) =>
                /\ all_articles[i].date.suffix = <<>>
                /\ all_articles[i].date.text \in ClockStart..clock
                /\ \A j \in 1..Len(all_articles) :
                       (/\ ~Unreadable(RawDateOf(all_articles[j]))
                        /\ SortDate(all_articles[j]) < ClockStart) => i < j

\* both kinds of undated article are returned, ahead of the articles dated
\* before the run
C20_Witness ==
    /\ pc = "done"
    /\ \E i, j \in 1..Len(result.val.articles) :
          /\ RawDateOf(all_articles[i]).shape = "empty"
          /\ RawDateOf(all_articles[j]).shape = "garbage"
          /\ \E k \in 1..Len(all_articles) :
                /\ i < k /\ j < k
                /\ ~Unreadable(RawDateOf(all_articles[k]))
                /\ SortDate(all_articles[k]) < ClockStart

----------------------------------------------------------------------------
(* The dashboard agent (agent.py): do_POST and the fetch_and_update thread. *)
(* HTTPServer handles one request at a time; the threads started by         *)
(* /api/fetch run beside the handler and beside each other.                 *)

\* how many POST requests the server handles in one run
MaxRequests == 2

\* how many of them start a thread
MaxThreads == 2

\* agent.py line 123: fetch_all_news(max_articles=10)
FetchMaxArticles == 10

\* what the request bodies of the model carry in their fields
PostedName == "Martine"
PostedUrl == "https://pod/1"
PostedArticle == [title |-> "Posted"]
PostedArticles == PyList(<<PostedArticle>>)

\* the fields the endpoints read
Fields == {"name", "url", "articles", "article"}

\* the bodies sent: none, undecodable, not JSON, null, an object without
\* fields, an object with every field
Bodies ==
    {HttpBody("empty", {}), HttpBody("not utf-8", {}),
     HttpBody("invalid json", {}), HttpBody("null", {}),
     HttpBody("object", {}), HttpBody("object", Fields)}

Paths ==
    {"/api/user", "/api/podcast", "/api/articles", "/api/article",
     "/api/clear", "/api/fetch", "/api/nope"}

\* agent.py lines 57-58: the body read and decoded, '{}' when there is none
decode_utf8(body) ==
    IF body.kind = "not utf-8" THEN Raise("UnicodeDecodeError", body)
    ELSE Ok(body)

\* json.loads(body)
json_loads(body) ==
    CASE body.kind = "invalid json" -> Raise("JSONDecodeError", [null |-> FALSE, has |-> {}])
      [] body.kind = "null"         -> Ok([null |-> TRUE, has |-> {}])
      [] OTHER                      -> Ok([null |-> FALSE, has |-> body.has])

\* field in data: None is not iterable
HasField(data, field) ==
    IF data.null THEN Raise("TypeError", FALSE) ELSE Ok(field \in data.has)

\* what one call of do_POST does: the state it leaves, the status it sends
\* (or the exception that escapes it), whether it starts a thread
Reply(state, resp, start) == [state |-> state, response |-> resp, thread |-> start]

\* agent.py lines 66-106: the four endpoints that read a field of the body
PostField(path, field, data, state) ==
    LET has == HasField(data, field)
    IN  IF has.exc # "none" THEN Reply(state, Raise(has.exc, 0), FALSE)
        ELSE IF ~has.val THEN Reply(state, Ok(400), FALSE)
        ELSE CASE path = "/api/user" ->
                    Reply([state EXCEPT !.user_name = PostedName], Ok(200), FALSE)
               [] path = "/api/podcast" ->
                    Reply([state EXCEPT !.podcast_link = PostedUrl], Ok(200), FALSE)
               [] path = "/api/articles" ->
                    Reply([state EXCEPT !.articles = PostedArticles,
                                        !.ready = TRUE], Ok(200), FALSE)
               [] path = "/api/article" ->
                    IF state.articles.kind = "list"
                    THEN Reply([state EXCEPT
                                  !.articles = PyList(Append(@.items, PostedArticle)),
                                  !.ready = TRUE], Ok(200), FALSE)
                    ELSE Reply(state, Raise("AttributeError", 0), FALSE)

\* agent.py lines 55-137
do_POST(path, body, state, available) ==
    LET text == decode_utf8(body)
        data == json_loads(body)
    IN  IF text.exc # "none" THEN Reply(state, Raise(text.exc, 0), FALSE)
        ELSE IF data.exc # "none" THEN Reply(state, Ok(400), FALSE)
        ELSE CASE path = "/api/user"     -> PostField(path, "name", data.val, state)
               [] path = "/api/podcast"  -> PostField(path, "url", data.val, state)
               [] path = "/api/articles" -> PostField(path, "articles", data.val, state)
               [] path = "/api/article"  -> PostField(path, "article", data.val, state)
               [] path = "/api/clear" ->
                    Reply([state EXCEPT !.articles = PyList(<<>>), !.ready = FALSE],
                          Ok(200), FALSE)
               [] path = "/api/fetch" -> Reply(state, Ok(200), available)
               [] OTHER -> Reply(state, Ok(404), FALSE)

\* news_fetcher.py lines 395-423: what fetch_all_news returns once
\* `accumulated` is what the two loops collected
fetch_all_news_return(accumulated, max, now) ==
    LET sorted == sort_newest_first(accumulated, now)
    IN  IF sorted.exc # "none" THEN Raise(sorted.exc, [articles |-> <<>>, summary |-> <<>>])
        ELSE LET top == AddIds(Prefix(sorted.val, max))
             IN  Ok([articles |-> top, summary |-> Summarize(top, now)])

\* what the first source answers during the fetch of a thread; every other
\* source fails
ThreadAnswers == {"transport error", "feed two"}

\* agent.py line 123, in a run where the first source answers `answer`
ThreadFetch(answer, now) ==
    LET first == fetch_news_from_source(NEWS_SOURCES[1], Response(answer), now)
    IN  IF first.exc # "none" THEN Raise(first.exc, [articles |-> <<>>, summary |-> <<>>])
        ELSE fetch_all_news_return(first.val, FetchMaxArticles, now)

\* what the call of line 123 can return or raise, the clock standing still
ThreadOutcomes == {ThreadFetch(answer, ClockStart) : answer \in ThreadAnswers}

InitDash ==
    /\ dashboard_state = InitialDashboardState
    /\ NEWS_FETCHER_AVAILABLE \in BOOLEAN
    /\ threads = <<>>
    /\ http_response = NoResponse
    /\ handled = 0
    /\ last_mutation = "none"
    /\ ParseIdle /\ AggIdle /\ SumIdle /\ DateIdle /\ HtmlIdle

\* one POST request to `path`, handled from the first line to the last
Post(path) ==
    \E body \in Bodies :
    LET r == do_POST(path, body, dashboard_state, NEWS_FETCHER_AVAILABLE)
    IN  /\ handled < MaxRequests
        /\ r.thread => Len(threads) < MaxThreads
        /\ handled' = handled + 1
        /\ dashboard_state' = r.state
        /\ http_response' = Answer(r.response, path, body)
        /\ threads' = IF r.thread
                      THEN Append(threads, [pc |-> "fetching",
                                            articles |-> [articles |-> <<>>,
                                                          summary |-> <<>>]])
                      ELSE threads
        /\ last_mutation' =
               IF path = "/api/clear"
               THEN IF r.response = Ok(200) THEN "clear" ELSE last_mutation
               ELSE IF path \in {"/api/articles", "/api/article", "/api/fetch"}
               THEN path ELSE last_mutation
        /\ UNCHANGED NEWS_FETCHER_AVAILABLE
        /\ UNCHANGED <<parse_vars, agg_vars, sum_vars, date_vars, html_vars>>

PostUser == Post("/api/user")
PostPodcast == Post("/api/podcast")
PostArticles == Post("/api/articles")
PostArticle == Post("/api/article")
PostClear == Post("/api/clear")
PostFetch == Post("/api/fetch")
PostUnknown == Post("/api/nope")

ThreadFrame ==
    /\ UNCHANGED <<NEWS_FETCHER_AVAILABLE, http_response, handled, last_mutation>>
    /\ UNCHANGED <<parse_vars, agg_vars, sum_vars, date_vars, html_vars>>

\* agent.py lines 122-123 and 127-128: the call returns, or raises into the
\* except clause, which only prints
FetchAllNews(w) ==
    /\ w \in 1..Len(threads)
    /\ threads[w].pc = "fetching"
    /\ \E r \in ThreadOutcomes :
          threads' = [threads EXCEPT ![w] =
                        IF r.exc = "none"
                        THEN [pc |-> "fetched", articles |-> r.val]
                        ELSE [pc |-> "failed", articles |-> r.val]]
    /\ UNCHANGED dashboard_state
    /\ ThreadFrame

\* agent.py line 124
SetArticles(w) ==
    /\ w \in 1..Len(threads)
    /\ threads[w].pc = "fetched"
    /\ dashboard_state' =
           [dashboard_state EXCEPT !.articles = PyDict(threads[w].articles)]
    /\ threads' = [threads EXCEPT ![w].pc = "set"]
    /\ ThreadFrame

\* the mutant of SetReady: ready only when some article was fetched
SetReady_OnlyWithArticles(w) ==
    /\ w \in 1..Len(threads)
    /\ threads[w].pc = "set"
    /\ dashboard_state' =
           [dashboard_state EXCEPT
              !.ready = IF threads[w].articles.articles # <<>> THEN TRUE ELSE @]
    /\ threads' = [threads EXCEPT ![w].pc = "done"]
    /\ ThreadFrame

\* agent.py lines 125-126
SetReady(w) ==
    /\ w \in 1..Len(threads)
    /\ threads[w].pc = "set"
    /\ dashboard_state' = [dashboard_state EXCEPT !.ready = TRUE]
    /\ threads' = [threads EXCEPT ![w].pc = "done"]
    /\ ThreadFrame

\* one step of the thread w
fetch_and_update(w) == FetchAllNews(w) \/ SetArticles(w) \/ SetReady(w)

ThreadFetches == \E w \in 1..MaxThreads : FetchAllNews(w)
ThreadSetsArticles == \E w \in 1..MaxThreads : SetArticles(w)
ThreadSetsReady == \E w \in 1..MaxThreads : SetReady(w)

NextDash ==
    \/ PostUser \/ PostPodcast \/ PostArticles \/ PostArticle
    \/ PostClear \/ PostFetch \/ PostUnknown
    \/ ThreadFetches \/ ThreadSetsArticles \/ ThreadSetsReady

SpecDash == InitDash /\ [][NextDash]_vars

\* every started thread is scheduled until it ends, and every network call
\* of its fetch returns (urlopen has a timeout)
SpecDashFair ==
    SpecDash /\ \A w \in 1..MaxThreads : WF_vars(fetch_and_update(w))

----------------------------------------------------------------------------
(* Claims about the dashboard agent.                                        *)

\* C21: in every reachable state of the dashboard the 'articles' entry is a
\* list, so a POST to /api/article that carries an article is never stopped
\* by an AttributeError of append.
C21_ArticlesIsList ==
    /\ dashboard_state.articles.kind = "list"
    /\ http_response.exc # "AttributeError"

\* the field each of the four endpoints requires
RequiredField(path) ==
    CASE path = "/api/user" -> "name"
      [] path = "/api/podcast" -> "url"
      [] path = "/api/articles" -> "articles"
      [] path = "/api/article" -> "article"

FieldPaths == {"/api/user", "/api/podcast", "/api/articles", "/api/article"}

\* the body is a JSON object (no body at all is read as '{}')
IsJsonObject(body) == body.kind \in {"object", "empty"}

\* the body is not valid JSON
NotJson(body) == body.kind \in {"invalid json", "not utf-8"}

\* the step is a handled POST request answered with `status` that left the
\* four entries of the dashboard as they were
RefusedWith(status) ==
    /\ http_response'.exc = "none"
    /\ http_response'.val = status
    /\ dashboard_state' = dashboard_state

\* C22: a POST to one of the four field endpoints whose JSON object lacks
\* the required field is answered 400, a POST whose body is not valid JSON
\* is answered 400, a POST to an unknown path is answered 404, and each
\* leaves user_name, podcast_link, articles and ready unchanged; a
\* successful POST to /api/user or /api/podcast changes only its own entry.
C22_ErrorsLeaveState ==
    [][handled' = handled + 1 =>
         LET path == http_response'.path
             body == http_response'.body
         IN  /\ (path \in FieldPaths /\ IsJsonObject(body)
                   /\ RequiredField(path) \notin body.has) => RefusedWith(400)
             /\ NotJson(body) => RefusedWith(400)
             /\ (path \notin Paths \ {"/api/nope"} /\ ~NotJson(body))
                   => RefusedWith(404)
             /\ (path = "/api/user" /\ http_response'.val = 200) =>
                   dashboard_state' = [dashboard_state EXCEPT !.user_name = PostedName]
             /\ (path = "/api/podcast" /\ http_response'.val = 200) =>
                   dashboard_state' = [dashboard_state EXCEPT !.podcast_link = PostedUrl]
    ]_vars

\* the thread w was started
Started(w) == Len(threads) >= w

\* the thread w was started and has not yet come back from fetch_all_news
Fetching(w) == Started(w) /\ threads[w].pc = "fetching"

\* C23: every thread started by an accepted POST /api/fetch eventually sets
\* 'ready' to True, also when every source fails, provided the thread is
\* scheduled and each network call returns.
C23_FetchEventuallyReady ==
    \A w \in 1..MaxThreads :
        Fetching(w) ~> (Started(w) /\ threads[w].pc = "done" /\ dashboard_state.ready)

\* a thread whose fetch found no article at all has set 'ready'
C23_Witness ==
    \E w \in 1..Len(threads) :
        /\ threads[w].pc = "done"
        /\ threads[w].articles.articles = <<>>
        /\ dashboard_state.ready
        /\ dashboard_state.articles = PyDict(threads[w].articles)

\* the dashboard is cleared: no articles, not ready
Cleared ==
    /\ dashboard_state.articles.kind = "list"
    /\ dashboard_state.articles.items = <<>>
    /\ dashboard_state.ready = FALSE

\* C24: once a POST /api/clear has completed, the dashboard stays cleared
\* until a later load-articles, add-article or fetch request is issued, also
\* while a thread started before the clear is still running.
C24_StaysCleared == last_mutation = "clear" => Cleared

----------------------------------------------------------------------------
(* The order fetch_all_news returns, checked under Spec *)

\* the article as it was before line 414 numbered it
Unnumbered(article) == [k \in DOMAIN article \ {"id"} |-> article[k]]

\* the place the i-th accumulated article takes when the later dates go
\* first and equal dates keep the order of accumulation
Rank(i) ==
    LET key(k) == parse_date_for_sort(all_articles[k], clock)
    IN  1 + Cardinality({j \in 1..Len(all_articles) :
                           \/ DateLess(key(i), key(j))
                           \/ key(j) = key(i) /\ j < i})

\* C25: the sort of fetch_all_news is stable: articles with equal sort dates
\* keep the order in which they were accumulated (registry order of the
\* sources, document order within a source), so the order of the returned
\* articles is fully determined by what was accumulated and max_articles.
C25_SortIsStable ==
    [][(pc = "sort" /\ pc' = "done") =>
          /\ Len(all_articles') = Len(all_articles)
          /\ \A i \in 1..Len(all_articles) :
                Unnumbered(all_articles'[Rank(i)]) = all_articles[i]
          /\ \A i, j \in 1..Len(all_articles) :
                (i < j /\ parse_date_for_sort(all_articles[i], clock)
                           = parse_date_for_sort(all_articles[j], clock))
                   => Rank(i) < Rank(j)
          /\ result'.val.articles =
                SubSeq(all_articles', 1, Len(result'.val.articles))
          /\ Len(result'.val.articles) =
                IF Len(all_articles) < max_articles THEN Len(all_articles)
                ELSE max_articles
    ]_vars

\* two articles of one feed with equal sort dates are returned in document
\* order, behind an article that stood after them in the feed
C25_Witness ==
    /\ pc = "done"
    /\ \E k, i, j \in 1..Len(all_articles) :
          /\ k < i /\ i < j
          /\ i <= Len(result.val.articles)
          /\ all_articles[k].title = ItemTitle(ItemEast)
          /\ all_articles[i].title = ItemTitle(ItemFull)
          /\ all_articles[j].title = ItemTitle(ItemWest)
          /\ all_articles[i].source = all_articles[j].source
          /\ SortDate(all_articles[i]) = SortDate(all_articles[j])
====
